---- MODULE Spec2Model ----
(***************************************************************************)
(* The requirements-to-web-app pipeline of src/src/main.py: a LangGraph    *)
(* StateGraph over RAGState (messages, documents) with ten nodes, two      *)
(* conditional edges decided by decision_bind.route_on_user_decision, and  *)
(* the node functions of src/src/*.py.                                     *)
(*                                                                         *)
(* Text is modelled as a sequence of one-character strings, so that the    *)
(* regular expressions YES_PAT / NO_PAT, str.strip and str.lower are       *)
(* computed character by character.                                        *)
(***************************************************************************)
EXTENDS Integers, Sequences, FiniteSets, TLC

VARIABLES
    pc,         \* the node the graph executes next, or "END" / "FAILED"
    messages,   \* RAGState["messages"]
    documents,  \* RAGState["documents"]
    files,      \* out/index.html and out/main.js
    server,     \* number of running http.server processes
    retrieved,  \* calls of retriever.invoke so far: the query, what came back
    display,    \* the summary of requirements last rendered for the person
    route,      \* value last returned by route_on_user_decision
    prev,       \* the node that completed last
    genCall,    \* arguments of the last generator (LLM) invocation
    calls,      \* generator (LLM) invocations so far
    latest,     \* what the last backward scan of the log on its own returned
    deltas,     \* deltas handed to the channel reducers on their own
    err,        \* the exception that ended the run, "" if none
    steps       \* node executions so far

vars ==
    <<pc, messages, documents, files, server, retrieved, display, route, prev, genCall,
      calls, latest, deltas, err, steps>>

---------------------------------------------------------------------------
(* Bounds *)

\* longest reply, in pieces, given to the router on its own
MaxPieces == 3
\* node executions in one run
MaxSteps == 4
\* messages after the seed query in the state a node is entered with
MaxInitTail == 2
\* longest log given to the backward scans on their own
MaxLog == 2
\* deltas merged after the input of app.invoke, by the reducers on their own
MaxDeltas == 2
\* longest list of requirements summarised for approval on its own
MaxReqs == 3
\* replies classified reject in one walk of the graph on its own
MaxRejects == 2

---------------------------------------------------------------------------
(* Characters and text *)

UpperCase == <<"A", "B", "C", "D", "E", "F", "G", "H", "I", "J", "K", "L", "M",
               "N", "O", "P", "Q", "R", "S", "T", "U", "V", "W", "X", "Y", "Z">>
LowerCase == <<"a", "b", "c", "d", "e", "f", "g", "h", "i", "j", "k", "l", "m",
               "n", "o", "p", "q", "r", "s", "t", "u", "v", "w", "x", "y", "z">>
Digits == {"0", "1", "2", "3", "4", "5", "6", "7", "8", "9"}

IsUpper(c) == \E i \in 1..26 : UpperCase[i] = c
IsLower(c) == \E i \in 1..26 : LowerCase[i] = c

\* str.lower() on one character
LowerChar(c) ==
    IF IsUpper(c) THEN LowerCase[CHOOSE i \in 1..26 : UpperCase[i] = c] ELSE c

\* str.lower()
Lower(t) == [i \in 1..Len(t) |-> LowerChar(t[i])]

\* the characters of the texts that occur in the model
Chars(p) ==
    CASE p = "Yes" ->
            <<"Y", "e", "s">>
      [] p = "NO" ->
            <<"N", "O">>
      [] p = "no" ->
            <<"n", "o">>
      [] p = "ok" ->
            <<"o", "k">>
      [] p = "not" ->
            <<"n", "o", "t">>
      [] p = "looks good" ->
            <<"l", "o", "o", "k", "s", " ", "g", "o", "o", "d">>
      [] p = "needs changes" ->
            <<"n", "e", "e", "d", "s", " ", "c", "h", "a", "n", "g", "e",
            "s">>
      [] p = "STALGIA" ->
            <<"S", "T", "A", "L", "G", "I", "A">>
      [] p = "banana" ->
            <<"b", "a", "n", "a", "n", "a">>
      [] p = " " ->
            <<" ">>
      [] p = ", " ->
            <<",", " ">>
      [] p = "_" ->
            <<"_">>
      [] p = "Yes, looks good" ->
            <<"Y", "e", "s", ",", " ", "l", "o", "o", "k", "s", " ", "g",
            "o", "o", "d">>
      [] p = "no, needs changes" ->
            <<"n", "o", ",", " ", "n", "e", "e", "d", "s", " ", "c", "h",
            "a", "n", "g", "e", "s">>
      [] p = "not ok" ->
            <<"n", "o", "t", " ", "o", "k">>
      [] p = "fix" ->
            <<"f", "i", "x">>
      [] p = "Functional" ->
            <<"F", "u", "n", "c", "t", "i", "o", "n", "a", "l">>
      [] p = "Non-Functional" ->
            <<"N", "o", "n", "-", "F", "u", "n", "c", "t", "i", "o", "n", "a",
            "l">>
      [] p = "non-functional" ->
            <<"n", "o", "n", "-", "f", "u", "n", "c", "t", "i", "o", "n", "a",
            "l">>
      [] p = "Data" ->
            <<"D", "a", "t", "a">>
      [] p = "Uncategorized" ->
            <<"U", "n", "c", "a", "t", "e", "g", "o", "r", "i", "z", "e", "d">>
      [] p = "What are the core requirements and key details in this document?" ->
            <<"W", "h", "a", "t", " ", "a", "r", "e", " ", "t", "h", "e",
            " ", "c", "o", "r", "e", " ", "r", "e", "q", "u", "i", "r", "e",
            "m", "e", "n", "t", "s", " ", "a", "n", "d", " ", "k", "e", "y",
            " ", "d", "e", "t", "a", "i", "l", "s", " ", "i", "n", " ", "t",
            "h", "i", "s", " ", "d", "o", "c", "u", "m", "e", "n", "t",
            "?">>
      [] p = "yes" ->
            <<"y", "e", "s">>
      [] p = "y" ->
            <<"y">>
      [] p = "approve" ->
            <<"a", "p", "p", "r", "o", "v", "e">>
      [] p = "approved" ->
            <<"a", "p", "p", "r", "o", "v", "e", "d">>
      [] p = "okay" ->
            <<"o", "k", "a", "y">>
      [] p = "agree" ->
            <<"a", "g", "r", "e", "e">>
      [] p = "accepted" ->
            <<"a", "c", "c", "e", "p", "t", "e", "d">>
      [] p = "accept" ->
            <<"a", "c", "c", "e", "p", "t">>
      [] p = "ship it" ->
            <<"s", "h", "i", "p", " ", "i", "t">>
      [] p = "n" ->
            <<"n">>
      [] p = "reject" ->
            <<"r", "e", "j", "e", "c", "t">>
      [] p = "rejected" ->
            <<"r", "e", "j", "e", "c", "t", "e", "d">>
      [] p = "disagree" ->
            <<"d", "i", "s", "a", "g", "r", "e", "e">>
      [] p = "question" ->
            <<"q", "u", "e", "s", "t", "i", "o", "n">>
      [] p = "questions" ->
            <<"q", "u", "e", "s", "t", "i", "o", "n", "s">>
      [] p = "deny" ->
            <<"d", "e", "n", "y">>
      [] p = "denied" ->
            <<"d", "e", "n", "i", "e", "d">>
      [] OTHER -> <<>>

RECURSIVE Flatten(_)
\* a text is kept as the sequence of the pieces it is put together from
Flatten(ps) == IF ps = <<>> THEN <<>> ELSE Chars(Head(ps)) \o Flatten(Tail(ps))

\* characters str.strip() removes
IsSpace(c) == c \in {" ", "\t", "\n", "\r"}

\* str.strip(): drop leading and trailing whitespace
Strip(t) ==
    IF \A i \in 1..Len(t) : IsSpace(t[i]) THEN <<>>
    ELSE LET a == CHOOSE i \in 1..Len(t) :
                      ~IsSpace(t[i]) /\ \A j \in 1..(i - 1) : IsSpace(t[j])
             b == CHOOSE i \in 1..Len(t) :
                      ~IsSpace(t[i]) /\ \A j \in (i + 1)..Len(t) : IsSpace(t[j])
         IN  SubSeq(t, a, b)

\* the regular-expression class \w
IsWordChar(c) == IsUpper(c) \/ IsLower(c) \/ c \in Digits \/ c = "_"

\* whether position i of t holds a \w character (positions outside t do not)
WordAt(t, i) == i >= 1 /\ i <= Len(t) /\ IsWordChar(t[i])

\* variant: no word-boundary assertion, a keyword matches anywhere
BoundaryAnywhere(t, i) == TRUE

\* the regular-expression assertion \b between positions i-1 and i
Boundary(t, i) == WordAt(t, i - 1) # WordAt(t, i)

\* keyword k read at position i of t, letters compared as re.I does
MatchAt(t, i, k) ==
    /\ i + Len(k) - 1 <= Len(t)
    /\ \A j \in 1..Len(k) : LowerChar(t[i + j - 1]) = LowerChar(k[j])

\* variant: the pattern \b(k1|k2|...) without the closing \b
SearchOpenEnded(pat, t) ==
    \E i \in 1..Len(t) : \E k \in pat : MatchAt(t, i, k) /\ Boundary(t, i)

\* pattern.search(t) for a pattern \b(k1|k2|...)\b compiled with re.I
Search(pat, t) ==
    \E i \in 1..Len(t) : \E k \in pat :
        MatchAt(t, i, k) /\ Boundary(t, i) /\ Boundary(t, i + Len(k))

YES_PAT ==
    { <<"y", "e", "s">>,
      <<"y">>,
      <<"a", "p", "p", "r", "o", "v", "e">>,
      <<"a", "p", "p", "r", "o", "v", "e", "d">>,
      <<"o", "k">>,
      <<"o", "k", "a", "y">>,
      <<"a", "g", "r", "e", "e">>,
      <<"a", "c", "c", "e", "p", "t", "e", "d">>,
      <<"a", "c", "c", "e", "p", "t">>,
      <<"l", "o", "o", "k", "s", " ", "g", "o", "o", "d">>,
      <<"s", "h", "i", "p", " ", "i", "t">> }

NO_PAT ==
    { <<"n", "o">>,
      <<"n">>,
      <<"r", "e", "j", "e", "c", "t">>,
      <<"r", "e", "j", "e", "c", "t", "e", "d">>,
      <<"d", "i", "s", "a", "g", "r", "e", "e">>,
      <<"n", "o", "t", " ", "o", "k">>,
      <<"n", "e", "e", "d", "s", " ", "c", "h", "a", "n", "g", "e", "s">>,
      <<"q", "u", "e", "s", "t", "i", "o", "n">>,
      <<"q", "u", "e", "s", "t", "i", "o", "n", "s">>,
      <<"d", "e", "n", "y">>,
      <<"d", "e", "n", "i", "e", "d">> }

\* variant: NO_PAT tested before YES_PAT
classifyRejectFirst(content) ==
    LET t == Lower(Strip(content))
    IN  IF Search(NO_PAT, t) THEN "reject"
        ELSE IF Search(YES_PAT, t) THEN "approve"
        ELSE "unknown"

\* the body of route_on_user_decision once the last human message is found
classify(content) ==
    LET t == Lower(Strip(content))
    IN  IF Search(YES_PAT, t) THEN "approve"
        ELSE IF Search(NO_PAT, t) THEN "reject"
        ELSE "unknown"

---------------------------------------------------------------------------
(* Python values: str, list and dict, as the nodes put them in messages *)

PyStr(s) == <<"str", s>>
PyList(items) == <<"list", items>>
PyDict(pairs) == <<"dict", pairs>>

IsDict(v) == v[1] = "dict"
HasKey(d, k) == \E i \in 1..Len(d[2]) : d[2][i][1] = k
Get(d, k) == d[2][CHOOSE i \in 1..Len(d[2]) : d[2][i][1] = k][2]

\* Requirement.model_dump(): the fields in declaration order
DumpRequirement(r) ==
    PyDict(<< <<"requirement_id", PyStr(r.requirement_id)>>,
              <<"description", PyStr(r.description)>>,
              <<"category", PyStr(r.category)>> >>)

\* RequirementsList.model_dump()
DumpRequirementsList(reqs) ==
    PyDict(<< <<"requirements",
                PyList([i \in 1..Len(reqs) |-> DumpRequirement(reqs[i])])>> >>)

\* QuestionsAndAnswers.model_dump()
DumpQuestionsAndAnswers(qnas) ==
    PyDict(<< <<"questions_and_answers",
                PyList([i \in 1..Len(qnas) |->
                    PyDict(<< <<"question", PyStr(qnas[i].question)>>,
                              <<"answer", PyStr(qnas[i].answer)>> >>)])>> >>)

\* pydantic accepts a value as a Requirement: a dict holding the three
\* required string fields
ValidRequirement(v) ==
    /\ IsDict(v)
    /\ \A k \in {"requirement_id", "description", "category"} :
           HasKey(v, k) /\ Get(v, k)[1] = "str"

\* pydantic accepts a value as a RequirementsList
ValidRequirementsList(v) ==
    /\ IsDict(v)
    /\ HasKey(v, "requirements")
    /\ Get(v, "requirements")[1] = "list"
    /\ \A i \in 1..Len(Get(v, "requirements")[2]) :
           ValidRequirement(Get(v, "requirements")[2][i])

\* the RequirementsList that model_validate builds from an accepted value
LoadRequirementsList(v) ==
    LET items == Get(v, "requirements")[2]
    IN  [i \in 1..Len(items) |->
            [requirement_id |-> Get(items[i], "requirement_id")[2],
             description |-> Get(items[i], "description")[2],
             category |-> Get(items[i], "category")[2]]]

NoResult == [ok |-> FALSE, error |-> "", reqs |-> <<>>]
Raised(e) == [ok |-> FALSE, error |-> e, reqs |-> <<>>]
Found(reqs) == [ok |-> TRUE, error |-> "", reqs |-> reqs]

\* RequirementsList.model_validate(v)
model_validate(v) ==
    IF ValidRequirementsList(v) THEN Found(LoadRequirementsList(v))
    ELSE Raised("ValidationError")

---------------------------------------------------------------------------
(* Messages *)

\* BaseMessage.name when no name was given
None == "<None>"

\* A message content is a Python str or a Python list.
\*   kind "str":  the text  head + pieces of text + JSON text of data[1] (if any)
\*   kind "list": the list  data
StrContent(head, text, data) ==
    [kind |-> "str", head |-> head, text |-> text, data |-> data]
ListContent(items) ==
    [kind |-> "list", head |-> "", text |-> <<>>, data |-> items]

\* the characters a person typed into a str content
TextOf(c) == Flatten(c.text)

HumanMessage(text, name) ==
    [type |-> "human", name |-> name, content |-> StrContent("", text, <<>>)]
AIMessage(content, name) ==
    [type |-> "ai", name |-> name, content |-> content]

\* first character of the fixed texts the nodes write
HeadInitial(head) ==
    IF head = "EXTRACTED REQUIREMENTS:\n\n" THEN "E"
    ELSE IF head = "AMENDED REQUIREMENTS:\n\n" THEN "A"
    ELSE "N"

\* content[0]: the first character of a str, the first item of a list
Getitem0(c) ==
    IF c.kind = "str"
    THEN IF c.head # "" THEN [ok |-> TRUE, val |-> PyStr(HeadInitial(c.head))]
         ELSE IF TextOf(c) # <<>> THEN [ok |-> TRUE, val |-> PyStr(TextOf(c)[1])]
         ELSE IF c.data # <<>> THEN [ok |-> TRUE, val |-> PyStr("{")]
         ELSE [ok |-> FALSE, val |-> PyStr("")]
    ELSE IF c.data # <<>> THEN [ok |-> TRUE, val |-> c.data[1]]
         ELSE [ok |-> FALSE, val |-> PyStr("")]

\* RequirementsList.model_validate(message.content[0])
ValidateFirst(m) ==
    IF Getitem0(m.content).ok THEN model_validate(Getitem0(m.content).val)
    ELSE Raised("IndexError")

Last(seq) == seq[Len(seq)]

\* main.py: the query the run is invoked with
user_query == <<"What are the core requirements and key details in this document?">>

Seed == HumanMessage(user_query, None)

\* variant: the delta is put in front of the value
ReducePrepend(x, y) == y \o x

\* variant: a channel without reducer, the delta replaces the value
ReduceReplace(x, y) == y

\* RAGState: both channels are merged with  lambda x, y: x + y
Reduce(x, y) == x \o y

---------------------------------------------------------------------------
(* What the collaborators may return: the retriever, the generator (LLM),  *)
(* the person at the console                                               *)

ReqA == [requirement_id |-> "REQ-001", description |-> "A", category |-> "Functional"]
ReqB == [requirement_id |-> "REQ-002", description |-> "B", category |-> "Non-Functional"]

\* retriever.invoke(query)
RetrieverResults == {<<>>, <<"chunk1">>, <<"chunk1", "chunk2">>}
\* llm.with_structured_output(RequirementsList).invoke(...)
GenRequirements == {<<>>, <<ReqA>>, <<ReqA, ReqB>>}
\* llm.with_structured_output(Questions).invoke(...).questions
GenQuestions == {<<>>, <<"Q1">>, <<"Q1", "Q2">>}
\* llm.with_structured_output(WebAppFiles).invoke(...)
GenFiles == {[html |-> "html1", js |-> "js1"], [html |-> "html2", js |-> "js2"]}
\* llm.with_structured_output(RefactorCommentsList).invoke(...): None, or
\* an object whose comments are these
NoComments == <<"<None>">>
GenComments == {NoComments, <<>>, <<"c1", "c2">>}
\* input(question) in question_maker
Answers == {"A1", "A2"}

\* input(prompt) at the two approval gates
GateReplies ==
    {<<"Yes, looks good">>, <<"no, needs changes">>, <<"banana">>, <<"not ok">>,
     <<>>}
\* input(prompt) in user_notes
Notes == {<<"fix">>, <<"ok">>}

\* a file of the out directory that does not exist
NoFile == "<no file>"

\* the slice questions[:1] limits the questions asked
QuestionCap == 1

\* seq[:n]
Take(seq, n) == SubSeq(seq, 1, IF Len(seq) < n THEN Len(seq) ELSE n)

\* genCall before any call: the arguments of a call, whether it returned
\* (out) and, for question_maker, the questions it returned
NoCall ==
    [stage |-> "none", context |-> <<>>, reqs |-> <<>>, feedback |-> <<>>,
     html |-> "", js |-> "", notes |-> <<>>, out |-> "none", questions |-> <<>>]

---------------------------------------------------------------------------
(* route_on_user_decision *)

\* indices of the HumanMessage entries of a log
HumanIndices(msgs) == {i \in 1..Len(msgs) : msgs[i].type = "human"}

Max(S) == CHOOSE x \in S : \A y \in S : y <= x

Min(S) == CHOOSE x \in S : \A y \in S : x <= y

\* variant: the first human message of the log is classified, not the last
routeOnFirstHuman(msgs) ==
    IF HumanIndices(msgs) = {} THEN "unknown"
    ELSE classify(TextOf(msgs[Min(HumanIndices(msgs))].content))

\* next(m for m in reversed(messages) if isinstance(m, HumanMessage)), then
\* the classification of its content
route_on_user_decision(msgs) ==
    IF HumanIndices(msgs) = {} THEN "unknown"
    ELSE classify(TextOf(msgs[Max(HumanIndices(msgs))].content))

\* variant: the conditional edge reads the log as it was when the node began
EdgeStateBeforeDelta(msgs, new) == msgs

\* the log a conditional edge is evaluated on: the node's delta is merged
\* before the router is called
EdgeState(msgs, new) == Reduce(msgs, new)

\* variant: a rejected list of requirements is implemented all the same
ApprovalEdgesRejectImplemented(decision) ==
    IF decision = "approve" THEN "implementation"
    ELSE IF decision = "reject" THEN "implementation"
    ELSE "END"

\* variant: an unknown reply asks for approval again
ApprovalEdgesUnknownAsksAgain(decision) ==
    IF decision = "approve" THEN "implementation"
    ELSE IF decision = "reject" THEN "question_maker"
    ELSE "present_for_approval"

\* variant: a rejected list of requirements is generated anew
ApprovalEdgesRejectRegenerates(decision) ==
    IF decision = "approve" THEN "implementation"
    ELSE IF decision = "reject" THEN "generate_requirements"
    ELSE "END"

\* graph.add_conditional_edges("present_for_approval", ...)
ApprovalEdges(decision) ==
    IF decision = "approve" THEN "implementation"
    ELSE IF decision = "reject" THEN "question_maker"
    ELSE "END"

\* variant: a rejected app goes straight back to code_refactor
FeedbackEdgesSkipNotes(decision) ==
    IF decision = "approve" THEN "END"
    ELSE IF decision = "reject" THEN "code_refactor"
    ELSE "END"

\* variant: an unknown reply about the app asks for feedback again
FeedbackEdgesUnknownAsksAgain(decision) ==
    IF decision = "approve" THEN "END"
    ELSE IF decision = "reject" THEN "user_notes"
    ELSE "user_feedback"

\* graph.add_conditional_edges("user_feedback", ...)
FeedbackEdges(decision) ==
    IF decision = "approve" THEN "END"
    ELSE IF decision = "reject" THEN "user_notes"
    ELSE "END"

\* variant: implementation hands over to code_refactor directly
EdgesSkipCommentary(node) ==
    CASE node = "START" -> "retrieve"
      [] node = "retrieve" -> "generate_requirements"
      [] node = "generate_requirements" -> "question_maker"
      [] node = "question_maker" -> "amend_requirements"
      [] node = "amend_requirements" -> "present_for_approval"
      [] node = "implementation" -> "code_refactor"
      [] node = "refactor_comment" -> "code_refactor"
      [] node = "user_notes" -> "code_refactor"
      [] node = "code_refactor" -> "user_feedback"

\* graph.add_edge(a, b): the unconditional edges
Edges(node) ==
    CASE node = "START" -> "retrieve"
      [] node = "retrieve" -> "generate_requirements"
      [] node = "generate_requirements" -> "question_maker"
      [] node = "question_maker" -> "amend_requirements"
      [] node = "amend_requirements" -> "present_for_approval"
      [] node = "implementation" -> "refactor_comment"
      [] node = "refactor_comment" -> "code_refactor"
      [] node = "user_notes" -> "code_refactor"
      [] node = "code_refactor" -> "user_feedback"

---------------------------------------------------------------------------
(* Steps of the graph *)

\* A node returned a delta: the graph merges it into the state with the
\* channel reducers and moves along the node's outgoing edge.
Complete(node, newMessages, newDocuments, next) ==
    /\ messages' = Reduce(messages, newMessages)
    /\ documents' = Reduce(documents, newDocuments)
    /\ pc' = next
    /\ prev' = node
    /\ steps' = steps + 1
    /\ err' = ""
    /\ UNCHANGED <<latest, deltas>>

\* variant: a run that fails takes back the entry appended last
RaiseRollsBack(node, e) ==
    /\ pc' = "FAILED"
    /\ err' = e
    /\ steps' = steps + 1
    /\ messages' = SubSeq(messages, 1, Len(messages) - 1)
    /\ UNCHANGED <<documents, server, route, prev, latest, deltas>>

\* A node raised: the graph applies no delta, app.invoke propagates the
\* exception and the run is over.
Raise(node, e) ==
    /\ pc' = "FAILED"
    /\ err' = e
    /\ steps' = steps + 1
    /\ UNCHANGED <<messages, documents, server, route, prev, latest, deltas>>

\* a node raised before it called a collaborator or wrote a file
Fail(node, e) ==
    /\ Raise(node, e)
    /\ UNCHANGED <<files, retrieved, display, genCall, calls>>

\* structured_llm.invoke(...) returned a structured output
Invoked(call) ==
    /\ calls' = calls + 1
    /\ genCall' = [call EXCEPT !.out = "returned"]

\* structured_llm.invoke(...) raised (network error, output that does not
\* parse into the schema): no node catches it
InvokeRaised(node, call) ==
    /\ calls' = calls + 1
    /\ genCall' = [call EXCEPT !.out = "raised"]
    /\ Raise(node, "GeneratorError")
    /\ UNCHANGED <<files, retrieved, display>>

\* save_web_files raised after the generator returned: at mkdir or at the
\* write of index.html (nothing written), or at the write of main.js
\* (index.html already written)
SaveRaised(node, call, app_files) ==
    /\ Invoked(call)
    /\ files' \in {files, [files EXCEPT !.html = app_files.html]}
    /\ Raise(node, "OSError")
    /\ UNCHANGED <<retrieved, display>>

\* input(prompt) raised after the prompt was shown: the read met the end of
\* its stream or was interrupted
InputRaised(node) == Raise(node, "EOFError")

CanRun(node) == pc = node /\ steps < MaxSteps

\* app.invoke(state): the graph is entered along the edge from START
start ==
    /\ pc = "START"
    /\ pc' = Edges("START")
    /\ UNCHANGED <<messages, documents, files, server, retrieved, display, route, prev, genCall, calls,
                   latest, deltas, err, steps>>

\* variant: every entry is taken for a query, whoever wrote it
isinstanceAnyMessage(m) == TRUE

\* isinstance(m, HumanMessage)
isinstanceHumanMessage(m) == m.type = "human"

\* what is recorded of a call retriever.invoke(query) that raised
RetrieverRaised == <<"<raised>">>

\* retriever.retrieve
retrieve ==
    /\ CanRun("retrieve")
    /\ LET last_message == Last(messages)
       IN  IF ~isinstanceHumanMessage(last_message)
           THEN /\ Complete("retrieve", <<>>, <<>>, Edges("retrieve"))
                /\ UNCHANGED retrieved
           ELSE \/ \E docs \in RetrieverResults :
                    /\ retrieved' = Append(retrieved, [query |-> last_message.content,
                                                       docs |-> docs])
                    /\ Complete("retrieve", <<>>, docs, Edges("retrieve"))
                \/ /\ retrieved' = Append(retrieved, [query |-> last_message.content,
                                                       docs |-> RetrieverRaised])
                   /\ Raise("retrieve", "RetrieverError")
    /\ UNCHANGED <<files, server, display, route, genCall, calls>>

\* variant: the entry of generate_requirements carries no name
extracted_messageUntagged(structured_output) ==
    AIMessage(StrContent("EXTRACTED REQUIREMENTS:\n\n", <<>>,
                         <<DumpRequirementsList(structured_output)>>),
              None)

\* the entry generate_requirements returns: the header text followed by
\* structured_output.model_dump_json(indent=2)
extracted_message(structured_output) ==
    AIMessage(StrContent("EXTRACTED REQUIREMENTS:\n\n", <<>>,
                         <<DumpRequirementsList(structured_output)>>),
              "requirements_agent")

\* requirement_creator.generate_requirements
generate_requirements ==
    /\ CanRun("generate_requirements")
    /\ LET call == [NoCall EXCEPT !.stage = "generate_requirements",
                                  !.context = documents]
       IN  \/ InvokeRaised("generate_requirements", call)
           \/ \E out \in GenRequirements :
                /\ Invoked(call)
                /\ Complete("generate_requirements",
                            <<extracted_message(out)>>,
                            <<>>, Edges("generate_requirements"))
                /\ UNCHANGED <<files, server, retrieved, display, route>>

\* variant: one entry for every question/answer pair
qna_messagesOnePerPair(qnas) ==
    [i \in 1..Len(qnas) |->
        AIMessage(ListContent(<<DumpQuestionsAndAnswers(<<qnas[i]>>)>>),
                  "question_maker")]

\* the delta question_maker returns: one entry holding
\* QuestionsAndAnswers(questions_and_answers=qnas).model_dump()
qna_messages(qnas) ==
    <<AIMessage(ListContent(<<DumpQuestionsAndAnswers(qnas)>>), "question_maker")>>

\* question_maker.question_maker
question_maker ==
    /\ CanRun("question_maker")
    /\ LET requirements == ValidateFirst(Last(messages))
       IN  IF ~requirements.ok
           THEN Fail("question_maker", requirements.error)
           ELSE LET call == [NoCall EXCEPT !.stage = "question_maker",
                                                !.reqs = requirements.reqs]
                IN
                \/ InvokeRaised("question_maker", call)
                \/ \E questions \in GenQuestions :
                   \E answers \in [1..Len(Take(questions, QuestionCap)) -> Answers] :
                    LET asked == Take(questions, QuestionCap)
                        qnas == [i \in 1..Len(asked) |->
                                    [question |-> asked[i], answer |-> answers[i]]]
                    IN  /\ Invoked([call EXCEPT !.questions = questions])
                        /\ Complete("question_maker", qna_messages(qnas),
                                    <<>>, Edges("question_maker"))
                        /\ UNCHANGED <<files, server, retrieved, display, route>>

\* amend_requirements.extract_requirements_from_message: the message of
\* generate_requirements, its header removed and the rest parsed as JSON
AmendExtract(m) ==
    IF m.name # "requirements_agent" THEN NoResult
    ELSE IF m.content.kind # "str" THEN Raised("AttributeError")
    ELSE IF \/ m.content.head \notin {"", "EXTRACTED REQUIREMENTS:\n\n"}
            \/ Strip(TextOf(m.content)) # <<>>
            \/ m.content.data = <<>>
         THEN Raised("JSONDecodeError")
    ELSE model_validate(m.content.data[1])

RECURSIVE ScanForAmend(_, _)
\* for msg in reversed(messages): requirements = extract(msg); the scan
\* goes on below entry i while the result is None, and stops at the first
\* entry that yields a RequirementsList (or raises)
ScanForAmend(msgs, i) ==
    IF i = 0 THEN NoResult
    ELSE LET requirements == AmendExtract(msgs[i])
         IN  IF requirements.ok \/ requirements.error # "" THEN requirements
             ELSE ScanForAmend(msgs, i - 1)

\* the value of  requirements  after the loop of amend_requirements
LatestForAmend(msgs) == ScanForAmend(msgs, Len(msgs))

\* amend_requirements.extract_qa_from_messages: messages named
\* "requirements_qa" whose content is a dict with a question and an answer
IsQaMessage(m) ==
    /\ m.name = "requirements_qa"
    /\ m.content.kind = "dict"
    /\ HasKey(m.content.data[1], "question")
    /\ HasKey(m.content.data[1], "answer")

extract_qa_from_messages(msgs) ==
    LET qa == SelectSeq(msgs, IsQaMessage)
    IN  [i \in 1..Len(qa) |->
            [question |-> Get(qa[i].content.data[1], "question"),
             answer |-> Get(qa[i].content.data[1], "answer")]]

\* the entry amend_requirements returns: the header text followed by
\* updated_requirements.model_dump_json(indent=2)
amended_message(updated_requirements) ==
    AIMessage(StrContent("AMENDED REQUIREMENTS:\n\n", <<>>,
                         <<DumpRequirementsList(updated_requirements)>>),
              "requirements_amender")

\* amend_requirements.amend_requirements
amend_requirements ==
    /\ CanRun("amend_requirements")
    /\ LET requirements == LatestForAmend(messages)
       IN  IF requirements.error # ""
           THEN Fail("amend_requirements", requirements.error)
           ELSE IF ~requirements.ok
           THEN /\ Complete("amend_requirements",
                            <<AIMessage(StrContent("No requirements found to amend.",
                                                   <<>>, <<>>), None)>>,
                            <<>>, Edges("amend_requirements"))
                /\ UNCHANGED <<files, server, retrieved, display, route, genCall, calls>>
           ELSE LET call == [NoCall EXCEPT
                                !.stage = "amend_requirements",
                                !.reqs = requirements.reqs,
                                !.feedback = extract_qa_from_messages(messages)]
                IN
                \/ InvokeRaised("amend_requirements", call)
                \/ \E out \in GenRequirements :
                    /\ Invoked(call)
                    /\ Complete("amend_requirements",
                                <<amended_message(out)>>,
                                <<>>, Edges("amend_requirements"))
                    /\ UNCHANGED <<files, server, retrieved, display, route>>

---------------------------------------------------------------------------
(* decision_bind.format_json_as_bullets *)

\* the characters of the model's texts, in code point order
CodePoints ==
    <<" ", ",", "-", "0", "1", "2", "3", "4", "5", "6", "7", "8", "9", "?">>
        \o UpperCase \o <<"_">> \o LowerCase

Ord(c) == CHOOSE i \in 1..Len(CodePoints) : CodePoints[i] = c

\* a < b on Python strings: code point by code point, a proper prefix first
StrLess(a, b) ==
    \E i \in 1..Len(b) :
        /\ i <= Len(a) + 1
        /\ \A j \in 1..(i - 1) : a[j] = b[j]
        /\ (i = Len(a) + 1 \/ Ord(a[i]) < Ord(b[i]))

\* str.upper() on one character
UpperChar(c) ==
    IF IsLower(c) THEN UpperCase[CHOOSE i \in 1..26 : LowerCase[i] = c] ELSE c

\* str.title(): a letter that follows a letter is lowered, any other letter
\* is raised
Title(t) ==
    [i \in 1..Len(t) |->
        IF i > 1 /\ (IsUpper(t[i - 1]) \/ IsLower(t[i - 1]))
        THEN LowerChar(t[i]) ELSE UpperChar(t[i])]

\* (item.get("category") or "Uncategorized").title()
CategoryOf(item) ==
    LET category == Chars(Get(item, "category")[2])
    IN  Title(IF category = <<>> THEN Chars("Uncategorized") ELSE category)

\* item.get("description") or ""
DescriptionOf(item) == Get(item, "description")[2]

RECURSIVE GroupOf(_, _)
\* groups[cat] after the loop over data["requirements"]: the descriptions
\* of the items of the category, in the order of the items; an item with an
\* empty description is skipped
GroupOf(items, cat) ==
    IF items = <<>> THEN <<>>
    ELSE (IF DescriptionOf(Head(items)) # "" /\ CategoryOf(Head(items)) = cat
          THEN <<DescriptionOf(Head(items))>> ELSE <<>>)
         \o GroupOf(Tail(items), cat)

\* groups.keys()
GroupKeys(items) ==
    {CategoryOf(items[i]) : i \in {j \in 1..Len(items) : DescriptionOf(items[j]) # ""}}

preferred == <<Chars("Functional"), Chars("Non-Functional")>>

\* variant: no preferred categories, every category sorted by its name
sort_keyByNameOnly(c) == <<999, c>>

\* sort_key(c): (preferred.index(c) if c in preferred else 999, c)
sort_key(c) ==
    IF \E i \in 1..Len(preferred) : preferred[i] = c
    THEN <<(CHOOSE i \in 1..Len(preferred) : preferred[i] = c) - 1, c>>
    ELSE <<999, c>>

\* the order of Python tuples (int, str)
KeyLess(k1, k2) == k1[1] < k2[1] \/ (k1[1] = k2[1] /\ StrLess(k1[2], k2[2]))

RECURSIVE sorted(_)
\* sorted(groups.keys(), key=sort_key)
sorted(cats) ==
    IF cats = {} THEN <<>>
    ELSE LET first == CHOOSE c \in cats :
                        \A d \in cats \ {c} : KeyLess(sort_key(c), sort_key(d))
         IN  <<first>> \o sorted(cats \ {first})

RECURSIVE Unseen(_, _)
\* the loop over groups[cat] with the set  seen
Unseen(descs, seen) ==
    IF descs = <<>> THEN <<>>
    ELSE IF Head(descs) \in seen THEN Unseen(Tail(descs), seen)
    ELSE <<Head(descs)>> \o Unseen(Tail(descs), seen \cup {Head(descs)})

\* the lines of the summary: "### cat", "- desc" and the empty line
HeaderLine(cat) == [kind |-> "header", cat |-> cat, desc |-> ""]
BulletLine(desc) == [kind |-> "bullet", cat |-> <<>>, desc |-> desc]
BlankLine == [kind |-> "blank", cat |-> <<>>, desc |-> ""]
\* the other renderings of format_json_as_bullets, for data of another shape
FallbackLine == [kind |-> "fallback", cat |-> <<>>, desc |-> ""]

RECURSIVE Sections(_, _)
\* for cat in ordered_cats: the header, the bullets, an empty line
Sections(cats, items) ==
    IF cats = <<>> THEN <<>>
    ELSE LET descs == Unseen(GroupOf(items, Head(cats)), {})
         IN  <<HeaderLine(Head(cats))>>
                \o [i \in 1..Len(descs) |-> BulletLine(descs[i])]
                \o <<BlankLine>>
                \o Sections(Tail(cats), items)

RECURSIVE Rstrip(_)
\* "\n".join(lines).rstrip(): the empty lines at the end are dropped
Rstrip(lines) ==
    IF lines # <<>> /\ lines[Len(lines)] = BlankLine
    THEN Rstrip(SubSeq(lines, 1, Len(lines) - 1))
    ELSE lines

\* format_json_as_bullets(raw), for raw the JSON text of data
format_json_as_bullets(data) ==
    IF IsDict(data) /\ HasKey(data, "requirements")
            /\ Get(data, "requirements")[1] = "list"
    THEN LET items == Get(data, "requirements")[2]
         IN  Rstrip(Sections(sorted(GroupKeys(items)), items))
    ELSE <<FallbackLine>>

\* decision_bind.present_for_approval, and the conditional edge after it.
\* The node returns {**state, "messages": [reply]}: the delta carries the
\* documents of the state as well.
present_for_approval ==
    /\ CanRun("present_for_approval")
    /\ LET requirements == ValidateFirst(Last(messages))
       IN  IF ~requirements.ok
           THEN Fail("present_for_approval", requirements.error)
           ELSE LET json_display == format_json_as_bullets(
                                        DumpRequirementsList(requirements.reqs))
                IN  /\ display' = json_display
                    /\ \/ \E approval \in GateReplies :
                            LET new == <<HumanMessage(approval, "present_for_approval")>>
                                decision == route_on_user_decision(EdgeState(messages, new))
                            IN  /\ route' = decision
                                /\ Complete("present_for_approval", new, documents,
                                            ApprovalEdges(decision))
                                /\ UNCHANGED server
                       \/ InputRaised("present_for_approval")
                    /\ UNCHANGED <<files, retrieved, genCall, calls>>

\* implement_app.extract_requirements_from_message
ImplementExtract(m) ==
    IF m.name # "requirements_amender" THEN NoResult ELSE ValidateFirst(m)

RECURSIVE ScanForImplement(_, _)
\* for msg in reversed(messages), as in amend_requirements
ScanForImplement(msgs, i) ==
    IF i = 0 THEN NoResult
    ELSE LET requirements == ImplementExtract(msgs[i])
         IN  IF requirements.ok \/ requirements.error # "" THEN requirements
             ELSE ScanForImplement(msgs, i - 1)

\* the value of  requirements  after the loop of implement_app
LatestForImplement(msgs) == ScanForImplement(msgs, Len(msgs))

\* "requirements" in name, for the names messages carry
NameHoldsRequirements(name) ==
    name \in {"requirements_agent", "requirements_amender", "requirements_qa"}

\* utils.extract_requirements_from_message
UtilsExtract(m) ==
    IF m.name = None THEN NoResult
    ELSE IF NameHoldsRequirements(m.name) THEN ValidateFirst(m)
    ELSE NoResult

RECURSIVE ScanForUtils(_, _)
\* for msg in reversed(state["messages"]) of extract_requirements_from_state
ScanForUtils(msgs, i) ==
    IF i = 0 THEN NoResult
    ELSE LET requirements == UtilsExtract(msgs[i])
         IN  IF requirements.ok \/ requirements.error # "" THEN requirements
             ELSE ScanForUtils(msgs, i - 1)

\* utils.extract_requirements_from_state: the scan, then
\* assert requirements is not None
extract_requirements_from_state(msgs) ==
    LET requirements == ScanForUtils(msgs, Len(msgs))
    IN  IF ~requirements.ok /\ requirements.error = ""
        THEN Raised("AssertionError")
        ELSE requirements

\* the summary both implement_app and code_refactor append
FilesSummary ==
    PyDict(<< <<"message", PyStr("Web application has been generated")>>,
              <<"files", PyDict(<< <<"html", PyStr("out/index.html")>>,
                                   <<"javascript", PyStr("out/main.js")>> >>)>> >>)

\* implement_app.save_web_files
save_web_files(app_files) == [html |-> app_files.html, js |-> app_files.js]

\* implement_app.implement_app
implementation ==
    /\ CanRun("implementation")
    /\ LET requirements == LatestForImplement(messages)
       IN  IF requirements.error # ""
           THEN Fail("implementation", requirements.error)
           ELSE IF ~requirements.ok
           THEN /\ Complete("implementation",
                            <<AIMessage(StrContent(
                                  "No amended requirements found to implement.",
                                  <<>>, <<>>), None)>>,
                            <<>>, Edges("implementation"))
                /\ UNCHANGED <<files, server, retrieved, display, route, genCall, calls>>
           ELSE LET call == [NoCall EXCEPT !.stage = "implementation",
                                           !.reqs = requirements.reqs]
                IN
                \/ InvokeRaised("implementation", call)
                \/ \E web_app \in GenFiles :
                    \/ SaveRaised("implementation", call, web_app)
                    \/ /\ Invoked(call)
                       /\ files' = save_web_files(web_app)
                       /\ Complete("implementation",
                                   <<AIMessage(ListContent(<<FilesSummary>>),
                                               "implementation")>>,
                                   <<>>, Edges("implementation"))
                       /\ UNCHANGED <<server, retrieved, display, route>>

\* Path.read_text / open().read() of a file of the out directory
ReadFile(name) == IF name = "index.html" THEN files.html ELSE files.js

\* variant: only a file that could not be read counts as no input
FalsyOnlyUnreadable(src) == src = NoFile

\* "not src": the file could not be read, or is empty
Falsy(src) == src = NoFile \/ src = ""

\* refactor_comment.refactor_comment
refactor_comment ==
    /\ CanRun("refactor_comment")
    /\ LET html_src == ReadFile("index.html")
           js_src == ReadFile("main.js")
       IN  IF Falsy(html_src) /\ Falsy(js_src)
           THEN /\ Complete("refactor_comment",
                            <<AIMessage(StrContent("No inputs to review", <<>>, <<>>),
                                        "refactor_commentary")>>,
                            <<>>, Edges("refactor_comment"))
                /\ UNCHANGED <<files, server, retrieved, display, route, genCall, calls>>
           ELSE LET call == [NoCall EXCEPT
                      !.stage = "refactor_comment",
                      !.html = IF html_src # NoFile THEN html_src
                               ELSE "<missing index.html>",
                      !.js = IF js_src # NoFile THEN js_src
                             ELSE "<missing main.js>"]
                IN
                \/ InvokeRaised("refactor_comment", call)
                \/ \E res \in GenComments :
                    /\ Invoked(call)
                    /\ Complete("refactor_comment",
                                <<AIMessage(
                                    IF res = NoComments THEN StrContent("", <<>>, <<>>)
                                    ELSE ListContent([i \in 1..Len(res) |->
                                                        PyStr(res[i])]),
                                    "refactor_commentary")>>,
                                <<>>, Edges("refactor_comment"))
                    /\ UNCHANGED <<files, server, retrieved, display, route>>

\* variant: the notes are the content of the first entry of the log
last_contentOfFirstEntry(msgs) == msgs[1].content

\* state["messages"][-1].content
last_content(msgs) == msgs[Len(msgs)].content

\* code_refactor.code_refactor: both paths are built from "main.js"
code_refactor ==
    /\ CanRun("code_refactor")
    /\ LET notes == last_content(messages)
           js_path == "main.js"
           html_path == "main.js"
       IN  IF ReadFile(js_path) = NoFile \/ ReadFile(html_path) = NoFile
           THEN Fail("code_refactor", "FileNotFoundError")
           ELSE LET call == [NoCall EXCEPT !.stage = "code_refactor",
                                           !.js = ReadFile(js_path),
                                           !.html = ReadFile(html_path),
                                           !.notes = <<notes>>]
                IN
                \/ InvokeRaised("code_refactor", call)
                \/ \E web_app \in GenFiles :
                    \/ SaveRaised("code_refactor", call, web_app)
                    \/ /\ Invoked(call)
                       /\ files' = save_web_files(web_app)
                       /\ Complete("code_refactor",
                                   <<AIMessage(ListContent(<<FilesSummary>>),
                                               "code_refactor")>>,
                                   <<>>, Edges("code_refactor"))
                       /\ UNCHANGED <<server, retrieved, display, route>>

\* variant: the server process is not terminated
kill_serverLeftRunning(running) == running

\* user_feedback.kill_server: terminate() and wait() end the process
kill_server(running) == running - 1

\* user_feedback.user_feedback up to the blocking input(): run_server()
\* starts the http.server process, or subprocess.Popen raises
run_server ==
    /\ CanRun("user_feedback")
    /\ \/ /\ server' = server + 1
          /\ pc' = "user_feedback:input"
          /\ UNCHANGED <<messages, documents, files, retrieved, display, route, prev, genCall,
                         calls, latest, deltas, err, steps>>
       \/ Fail("user_feedback", "OSError")

\* user_feedback.user_feedback from the blocking input() on: the reply,
\* kill_server(), the delta {**state, "messages": [reply]} and the
\* conditional edge after the node; or input() raises, and the statements
\* after it, kill_server() among them, are not executed
user_feedback ==
    /\ pc = "user_feedback:input"
    /\ \/ \E approval \in GateReplies :
            LET new == <<HumanMessage(approval, "present_for_approval")>>
                decision == route_on_user_decision(EdgeState(messages, new))
            IN  /\ server' = kill_server(server)
                /\ route' = decision
                /\ Complete("user_feedback", new, documents, FeedbackEdges(decision))
       \/ InputRaised("user_feedback")
    /\ UNCHANGED <<files, retrieved, display, genCall, calls>>

\* user_feedback.user_notes
user_notes ==
    /\ CanRun("user_notes")
    /\ \/ /\ \E notes \in Notes :
                Complete("user_notes", <<HumanMessage(notes, "user_notes")>>, documents,
                         Edges("user_notes"))
          /\ UNCHANGED <<server, route>>
       \/ InputRaised("user_notes")
    /\ UNCHANGED <<files, retrieved, display, genCall, calls>>

---------------------------------------------------------------------------
(* The pipeline *)

Nodes ==
    {"retrieve", "generate_requirements", "question_maker", "amend_requirements",
     "present_for_approval", "implementation", "refactor_comment",
     "code_refactor", "user_feedback", "user_notes"}

\* Messages a node can find in the state it is entered with: the messages
\* the nodes write, the requirements messages in the form their readers
\* index (a list holding the dumped RequirementsList), and a person's notes.
ExtractedMessage == extracted_message(<<ReqA>>)
QnaMessage ==
    AIMessage(ListContent(<<DumpQuestionsAndAnswers(
                              <<[question |-> "Q1", answer |-> "A1"]>>)>>),
              "question_maker")
AmendedMessage == amended_message(<<ReqA, ReqB>>)
ExtractedListMessage ==
    AIMessage(ListContent(<<DumpRequirementsList(<<ReqA>>)>>), "requirements_agent")
AmendedListMessage ==
    AIMessage(ListContent(<<DumpRequirementsList(<<ReqA, ReqB>>)>>),
              "requirements_amender")
NotesMessage == HumanMessage(<<"fix">>, "user_notes")
MessageUniverse ==
    {ExtractedMessage, QnaMessage, AmendedMessage, ExtractedListMessage,
     AmendedListMessage, NotesMessage}

InitTails == UNION {[1..n -> MessageUniverse] : n \in 0..MaxInitTail}

InitFiles ==
    {[html |-> NoFile, js |-> NoFile], [html |-> "html0", js |-> "js0"],
     [html |-> NoFile, js |-> "js0"], [html |-> "", js |-> NoFile]}

\* A run is entered at a node with a state whose log starts with the seed
\* query of main.py.  main.py itself enters at START with the seed alone.
Init ==
    /\ pc \in Nodes \cup {"START"}
    /\ \E tail \in InitTails : messages = <<Seed>> \o tail
    /\ documents \in {<<>>, <<"chunk0">>}
    /\ pc = "START" => (messages = <<Seed>> /\ documents = <<>>)
    /\ files \in InitFiles
    /\ server = 0
    /\ retrieved = <<>>
    /\ display = <<>>
    /\ route = "none"
    /\ prev = "none"
    /\ genCall = NoCall
    /\ calls = 0
    /\ latest = NoResult
    /\ deltas = <<>>
    /\ err = ""
    /\ steps = 0

Next ==
    \/ start
    \/ retrieve
    \/ generate_requirements
    \/ question_maker
    \/ amend_requirements
    \/ present_for_approval
    \/ implementation
    \/ refactor_comment
    \/ code_refactor
    \/ run_server
    \/ user_feedback
    \/ user_notes

Spec == Init /\ [][Next]_vars

---------------------------------------------------------------------------
(* The router on its own, over replies put together from pieces *)

Pieces ==
    {"Yes", "NO", "no", "ok", "not", "looks good", "needs changes", "STALGIA",
     "banana", " ", ", ", "_"}

Replies == UNION {[1..n -> Pieces] : n \in 0..MaxPieces}

InitRouter ==
    /\ pc = "route"
    /\ \E reply \in Replies :
           messages = <<Seed, HumanMessage(reply, "present_for_approval")>>
    /\ documents = <<>>
    /\ files = [html |-> NoFile, js |-> NoFile]
    /\ server = 0
    /\ retrieved = <<>>
    /\ display = <<>>
    /\ route = "none"
    /\ prev = "none"
    /\ genCall = NoCall
    /\ calls = 0
    /\ latest = NoResult
    /\ deltas = <<>>
    /\ err = ""
    /\ steps = 0

\* route_on_user_decision(state), applied once
Route ==
    /\ pc = "route"
    /\ route' = route_on_user_decision(messages)
    /\ pc' = "routed"
    /\ UNCHANGED <<messages, documents, files, server, retrieved, display, prev, genCall, calls, latest,
                   deltas, err, steps>>

NextRouter == Route

SpecRouter == InitRouter /\ [][NextRouter]_vars

---------------------------------------------------------------------------
(* Words of a text, found by cutting it into maximal runs of letters,      *)
(* digits and underscores                                                  *)

\* <<a, b>>: t[a..b] is a maximal run of word characters
Runs(t) ==
    {<<a, CHOOSE b \in a..Len(t) :
              /\ \A i \in a..b : IsWordChar(t[i])
              /\ ~WordAt(t, b + 1)>> :
        a \in {i \in 1..Len(t) : WordAt(t, i) /\ ~WordAt(t, i - 1)}}

RunIs(t, r, w) == Lower(SubSeq(t, r[1], r[2])) = w

SpaceIndex(k) == {i \in 1..Len(k) : k[i] = " "}

\* keyword k (one word, or two words with a blank between) stands in t as
\* whole words, in any letter case; runs is Runs(t)
OccursAsWords(k, t, runs) ==
    IF SpaceIndex(k) = {}
    THEN \E r \in runs : RunIs(t, r, k)
    ELSE LET sp == CHOOSE i \in SpaceIndex(k) : TRUE
         IN  \E r1 \in runs : \E r2 \in runs :
                /\ r2[1] = r1[2] + 2
                /\ t[r1[2] + 1] = " "
                /\ RunIs(t, r1, SubSeq(k, 1, sp - 1))
                /\ RunIs(t, r2, SubSeq(k, sp + 1, Len(k)))

ApproveWord(t) == LET runs == Runs(t) IN \E k \in YES_PAT : OccursAsWords(k, t, runs)
RejectWord(t) == LET runs == Runs(t) IN \E k \in NO_PAT : OccursAsWords(k, t, runs)

\* the reply the router has classified
ClassifiedReply == TextOf(Last(messages).content)

---------------------------------------------------------------------------
(* Claims *)

\* C1: when present_for_approval completes, the graph goes on by the class
\* of the reply just appended: approve leads to implementation, reject to
\* question_maker; from question_maker a completed stage leads to
\* amend_requirements, and from there to present_for_approval again.
ApprovalBranchFollowsReply ==
    [][ /\ (pc = "present_for_approval" /\ pc' # "FAILED") =>
            /\ Last(messages').type = "human"
            /\ Len(messages') = Len(messages) + 1
            /\ (classify(TextOf(Last(messages').content)) = "approve"
                    => pc' = "implementation")
            /\ (classify(TextOf(Last(messages').content)) = "reject"
                    => pc' = "question_maker")
        /\ (pc = "question_maker" /\ pc' # "FAILED") => pc' = "amend_requirements"
        /\ (pc = "amend_requirements" /\ pc' # "FAILED")
                => pc' = "present_for_approval" ]_vars

RejectRoutedToQuestionMaker ==
    /\ prev = "present_for_approval"
    /\ classify(ClassifiedReply) = "reject"
    /\ pc = "question_maker"

\* C2: every step into implementation is a completion of
\* present_for_approval with a reply classified approve; a reply classified
\* reject or unknown never leads there.
ImplementationOnlyAfterApprove ==
    [][ /\ (pc' = "implementation" /\ pc # "implementation") =>
            /\ pc = "present_for_approval"
            /\ Last(messages').name = "present_for_approval"
            /\ classify(TextOf(Last(messages').content)) = "approve"
        /\ (pc = "present_for_approval" /\ pc' # "FAILED"
                /\ classify(TextOf(Last(messages').content)) \in {"reject", "unknown"})
                => pc' # "implementation" ]_vars

ImplementationAfterApprove ==
    /\ prev = "present_for_approval"
    /\ route = "approve"
    /\ pc = "implementation"

\* C3: the router answers approve when an approve keyword stands in the
\* reply (whether or not a reject keyword does), else reject when a reject
\* keyword stands in it, else unknown.
ApproveTestedFirst ==
    pc = "routed" =>
        route = IF ApproveWord(ClassifiedReply) THEN "approve"
                ELSE IF RejectWord(ClassifiedReply) THEN "reject"
                ELSE "unknown"

BothPatternsGiveApprove ==
    /\ pc = "routed"
    /\ ApproveWord(ClassifiedReply)
    /\ RejectWord(ClassifiedReply)
    /\ route = "approve"

YesLooksGood == Chars("Yes, looks good")
NoNeedsChanges == Chars("no, needs changes")
Banana == Chars("banana")

\* C4: every reply is given one of the three classes; "Yes, looks good" is
\* approve, "no, needs changes" is reject, "banana" is unknown.
ClassifyTotalWithExamples ==
    pc = "routed" =>
        /\ route \in {"approve", "reject", "unknown"}
        /\ (ClassifiedReply = YesLooksGood => route = "approve")
        /\ (ClassifiedReply = NoNeedsChanges => route = "reject")
        /\ (ClassifiedReply = Banana => route = "unknown")

BananaClassified ==
    pc = "routed" /\ ClassifiedReply = Banana /\ route = "unknown"

\* C5: a keyword counts only as a whole word, in any letter case: the reply
\* is classified unknown exactly when no keyword stands in it as a whole
\* word, so a keyword inside a longer word ("NOSTALGIA", "YesSTALGIA",
\* "no_banana") does not count.
KeywordsMatchWholeWordsOnly ==
    pc = "routed" =>
        (route = "unknown" <=>
            ~(ApproveWord(ClassifiedReply) \/ RejectWord(ClassifiedReply)))

Nostalgia == Chars("NO") \o Chars("STALGIA")

EmbeddedKeywordUnknown ==
    /\ pc = "routed"
    /\ ClassifiedReply = Nostalgia
    /\ route = "unknown"

\* C6: when user_feedback completes, approve ends the run and reject leads
\* to user_notes; user_notes leads to code_refactor and code_refactor back
\* to user_feedback, every time round.
FeedbackBranchFollowsReply ==
    [][ /\ (pc = "user_feedback:input" /\ pc' # "FAILED") =>
            /\ Last(messages').type = "human"
            /\ Len(messages') = Len(messages) + 1
            /\ (classify(TextOf(Last(messages').content)) = "approve" => pc' = "END")
            /\ (classify(TextOf(Last(messages').content)) = "reject"
                    => pc' = "user_notes")
        /\ (pc = "user_notes" /\ pc' # "FAILED") => pc' = "code_refactor"
        /\ (pc = "code_refactor" /\ pc' # "FAILED") => pc' = "user_feedback"
        /\ (pc = "user_feedback" /\ pc' # "FAILED")
                => pc' = "user_feedback:input" ]_vars

\* user_feedback was rejected, user_notes and code_refactor ran, and
\* user_feedback was rejected again
FeedbackLoopTwice ==
    /\ pc = "user_notes"
    /\ prev = "user_feedback"
    /\ route = "reject"
    /\ \E i \in 1..Len(messages) : \E j \in 1..Len(messages) :
        /\ i < j
        /\ messages[i].name = "user_notes"
        /\ messages[j].name = "code_refactor"

\* C7: a reply classified unknown at either gate ends the run: the graph is
\* at END with no exception, the log is the log before the gate plus the
\* reply, and nothing runs after END.
UnknownEndsRunCleanly ==
    [][ /\ pc # "END"
        /\ (/\ pc \in {"present_for_approval", "user_feedback:input"}
            /\ pc' # "FAILED"
            /\ classify(TextOf(Last(messages').content)) = "unknown") =>
                /\ pc' = "END"
                /\ err' = ""
                /\ Len(messages') = Len(messages) + 1
                /\ SubSeq(messages', 1, Len(messages)) = messages
                /\ Last(messages').type = "human" ]_vars

UnknownAtApprovalEnded ==
    /\ pc = "END"
    /\ prev = "present_for_approval"
    /\ route = "unknown"
    /\ err = ""

\* C8: the log only grows at its end, and its first entry is the seed query.
IsPrefix(s, t) == Len(s) <= Len(t) /\ SubSeq(t, 1, Len(s)) = s

LogAppendOnly ==
    /\ [](Len(messages) >= 1 /\ messages[1] = Seed)
    /\ [][IsPrefix(messages, messages')]_vars

LogGrownByThreeStages ==
    /\ steps >= 3
    /\ err = ""
    /\ prev # "none"
    /\ Len(messages) >= 4

\* C9: question_maker entered after a reject reply at present_for_approval
\* completes: it appends one Q&A entry and hands over to amend_requirements.
QuestionMakerReentryCompletes ==
    [][ (pc = "question_maker" /\ prev = "present_for_approval") =>
            /\ pc' = "amend_requirements"
            /\ Len(messages') = Len(messages) + 1
            /\ Last(messages').name = "question_maker" ]_vars

\* the question/answer pairs of the latest entry question_maker appended
LatestQnaPairs ==
    LET named == {i \in 1..Len(messages) : messages[i].name = "question_maker"}
    IN  IF named = {} THEN <<>>
        ELSE Get(messages[Max(named)].content.data[1], "questions_and_answers")[2]

\* C10: the feedback amend_requirements gives the generator holds every
\* question/answer pair of the latest Q&A entry.
AmendFeedbackHoldsLatestQna ==
    (prev = "amend_requirements" /\ genCall.stage = "amend_requirements") =>
        \A i \in 1..Len(LatestQnaPairs) :
            \E j \in 1..Len(genCall.feedback) :
                /\ genCall.feedback[j].question = Get(LatestQnaPairs[i], "question")
                /\ genCall.feedback[j].answer = Get(LatestQnaPairs[i], "answer")

\* exceptions of the collaborators: the generator, the file system and the
\* preview server, the retriever
CollaboratorErrors == {"GeneratorError", "OSError", "FileNotFoundError", "RetrieverError"}

\* in this step a collaborator call raised
CollaboratorRaised == err' \in CollaboratorErrors

\* the log holds an entry generate_requirements wrote
HoldsRequirementsEntry(msgs) ==
    \E i \in 1..Len(msgs) : msgs[i].name = "requirements_agent"

\* the log holds a Q&A entry: one question_maker wrote, or one
\* extract_qa_from_messages would take up
HoldsQnaEntry(msgs) ==
    \E i \in 1..Len(msgs) : msgs[i].name \in {"question_maker", "requirements_qa"}

\* a plain notice: an unnamed AI entry holding a fixed text and no data
IsNotice(m) ==
    /\ m.type = "ai"
    /\ m.name = None
    /\ m.content.kind = "str"
    /\ m.content.data = <<>>

\* C11: when the log holds no requirements entry, or no Q&A entry,
\* amend_requirements does not raise, appends exactly one plain notice and
\* does not call the generator (a log whose requirements entry does not
\* parse, and a step in which a collaborator itself raised, are left aside).
AmendMissingInputGivesNotice ==
    [][ (/\ pc = "amend_requirements"
         /\ ~HoldsRequirementsEntry(messages) \/ ~HoldsQnaEntry(messages)
         /\ LatestForAmend(messages).error = ""
         /\ ~CollaboratorRaised) =>
            /\ pc' # "FAILED"
            /\ Len(messages') = Len(messages) + 1
            /\ IsNotice(Last(messages'))
            /\ calls' = calls ]_vars

---------------------------------------------------------------------------
(* The backward scans of the log on their own, over every short log *)

ExtractedMessageAB == extracted_message(<<ReqA, ReqB>>)
AmendedListMessageA ==
    AIMessage(ListContent(<<DumpRequirementsList(<<ReqA>>)>>),
              "requirements_amender")

LatestUniverse ==
    MessageUniverse \cup {Seed, ExtractedMessageAB, AmendedListMessageA}

Logs == UNION {[1..n -> LatestUniverse] : n \in 0..MaxLog}

InitLatest ==
    /\ pc = "scan"
    /\ messages \in Logs
    /\ documents = <<>>
    /\ files = [html |-> NoFile, js |-> NoFile]
    /\ server = 0
    /\ retrieved = <<>>
    /\ display = <<>>
    /\ route = "none"
    /\ prev = "none"
    /\ genCall = NoCall
    /\ calls = 0
    /\ latest = NoResult
    /\ deltas = <<>>
    /\ err = ""
    /\ steps = 0

\* a scan ran: its result, and the exception it raised if any
Scanned(site, result) ==
    /\ pc = "scan"
    /\ pc' = "scanned"
    /\ prev' = site
    /\ latest' = result
    /\ err' = result.error
    /\ UNCHANGED <<messages, documents, files, server, retrieved, display, route, genCall, calls, deltas,
                   steps>>

\* the loop at the head of amend_requirements
ScanAmend == Scanned("amend_requirements", LatestForAmend(messages))

\* the loop at the head of implement_app
ScanImplement == Scanned("implementation", LatestForImplement(messages))

\* utils.extract_requirements_from_state(state)
ScanUtils == Scanned("utils", extract_requirements_from_state(messages))

NextLatest ==
    \/ ScanAmend
    \/ ScanImplement
    \/ ScanUtils

SpecLatest == InitLatest /\ [][NextLatest]_vars

\* the entries of the log that carry the tag a scan looks for
Tagged(site, msgs) ==
    {i \in 1..Len(msgs) :
        IF site = "amend_requirements" THEN msgs[i].name = "requirements_agent"
        ELSE IF site = "implementation" THEN msgs[i].name = "requirements_amender"
        ELSE NameHoldsRequirements(msgs[i].name)}

\* what a scan makes of one tagged entry
PayloadOf(site, m) ==
    IF site = "amend_requirements" THEN AmendExtract(m)
    ELSE IF site = "implementation" THEN ImplementExtract(m)
    ELSE UtilsExtract(m)

\* C12: a scan returns what the tagged entry closest to the end of the log
\* yields, and NotFound, without an exception, when the log is empty or
\* holds no tagged entry.
LatestIsClosestToEnd ==
    pc = "scanned" =>
        IF Tagged(prev, messages) = {}
        THEN latest = NoResult /\ err = ""
        ELSE latest = PayloadOf(prev, messages[Max(Tagged(prev, messages))])

---------------------------------------------------------------------------
(* Round trips of the requirements through the log *)

\* position of the entry of generate_requirements closest to the end
LatestAgentEntry(msgs) ==
    Max({i \in 1..Len(msgs) : msgs[i].name = "requirements_agent"})

\* C13: the RequirementsList generate_requirements wrote into its entry is
\* the one its readers hand on: question_maker, run on that entry as the
\* last of the log, and amend_requirements, for which it is the latest
\* requirements entry, both complete with exactly that list, unless a
\* collaborator call of theirs raises.
ExtractedListRecovered ==
    [][ \A out \in GenRequirements :
        /\ (/\ pc = "question_maker"
            /\ Last(messages) = extracted_message(out)
            /\ ~CollaboratorRaised) =>
                /\ pc' = "amend_requirements"
                /\ genCall'.stage = "question_maker"
                /\ genCall'.reqs = out
        /\ (/\ pc = "amend_requirements"
            /\ HoldsRequirementsEntry(messages)
            /\ messages[LatestAgentEntry(messages)] = extracted_message(out)
            /\ ~CollaboratorRaised) =>
                /\ pc' = "present_for_approval"
                /\ genCall'.stage = "amend_requirements"
                /\ genCall'.reqs = out ]_vars

\* the log holds an entry amend_requirements wrote
HoldsAmendedEntry(msgs) ==
    \E i \in 1..Len(msgs) : msgs[i].name = "requirements_amender"

\* position of the entry of amend_requirements closest to the end
LatestAmenderEntry(msgs) ==
    Max({i \in 1..Len(msgs) : msgs[i].name = "requirements_amender"})

\* C14: the RequirementsList amend_requirements wrote into its entry is the
\* one its readers recover: present_for_approval, run on that entry as the
\* last of the log, validates it to that list and completes with the reply;
\* implementation, for which it is the latest amended entry, completes
\* having given exactly that list to the generator, unless a collaborator
\* call of its raises.
AmendedListRecovered ==
    [][ \A out \in GenRequirements :
        /\ (pc = "present_for_approval" /\ Last(messages) = amended_message(out)) =>
                /\ ValidateFirst(Last(messages)) = Found(out)
                /\ pc' # "FAILED"
                /\ Last(messages').name = "present_for_approval"
        /\ (/\ pc = "implementation"
            /\ HoldsAmendedEntry(messages)
            /\ messages[LatestAmenderEntry(messages)] = amended_message(out)
            /\ ~CollaboratorRaised) =>
                /\ pc' = "refactor_comment"
                /\ genCall'.stage = "implementation"
                /\ genCall'.reqs = out ]_vars

---------------------------------------------------------------------------
(* implementation and code_refactor *)

\* the entry both implementation and code_refactor append: the two paths
IsFilesSummary(m) ==
    /\ m.type = "ai"
    /\ m.content = ListContent(<<FilesSummary>>)
    /\ Get(Get(FilesSummary, "files"), "html") = PyStr("out/index.html")
    /\ Get(Get(FilesSummary, "files"), "javascript") = PyStr("out/main.js")

\* C15: on a log holding an amended entry implementation completes, unless
\* the generator or the file system raises: it gives the generator the list of the amended entry closest to the end,
\* the two files hold what the generator returned, and one entry with the
\* two paths is appended; on a log without amended entry it appends one
\* plain notice, calls no generator and leaves the files alone.
ImplementationWritesBothFiles ==
    [][ /\ (/\ pc = "implementation"
            /\ HoldsAmendedEntry(messages)
            /\ ~CollaboratorRaised) =>
                /\ pc' = "refactor_comment"
                /\ ValidateFirst(messages[LatestAmenderEntry(messages)])
                        = Found(genCall'.reqs)
                /\ genCall'.stage = "implementation"
                /\ calls' = calls + 1
                /\ [html |-> files'.html, js |-> files'.js] \in GenFiles
                /\ Len(messages') = Len(messages) + 1
                /\ SubSeq(messages', 1, Len(messages)) = messages
                /\ IsFilesSummary(Last(messages'))
                /\ Last(messages').name = "implementation"
        /\ (pc = "implementation" /\ ~HoldsAmendedEntry(messages)) =>
                /\ pc' = "refactor_comment"
                /\ Len(messages') = Len(messages) + 1
                /\ SubSeq(messages', 1, Len(messages)) = messages
                /\ IsNotice(Last(messages'))
                /\ calls' = calls
                /\ genCall' = genCall
                /\ files' = files ]_vars

\* C16: with both files present, code_refactor completes, unless the
\* generator or the file system raises: the generator was
\* given the content of out/index.html as the HTML source and that of
\* out/main.js as the JavaScript source, both files then hold the
\* generator's output, and exactly one summary entry is appended.
RefactorReadsBothFiles ==
    [][ (/\ pc = "code_refactor"
         /\ files.html # NoFile
         /\ files.js # NoFile
         /\ ~CollaboratorRaised) =>
            /\ pc' = "user_feedback"
            /\ genCall'.stage = "code_refactor"
            /\ genCall'.html = files.html
            /\ genCall'.js = files.js
            /\ [html |-> files'.html, js |-> files'.js] \in GenFiles
            /\ Len(messages') = Len(messages) + 1
            /\ SubSeq(messages', 1, Len(messages)) = messages
            /\ IsFilesSummary(Last(messages'))
            /\ Last(messages').name = "code_refactor" ]_vars

---------------------------------------------------------------------------
(* The edges of the graph *)

---------------------------------------------------------------------------
(* The preview server *)

\* C18: user_feedback starts the preview server when it begins, the server
\* runs while the stage waits for the reply and is stopped when the stage
\* returns; whenever any other stage is next or the run has ended at END no
\* server runs, and there is never more than one, however often the reject
\* loop is taken.
ServerOnlyAroundFeedbackGate ==
    /\ [](/\ server \in {0, 1}
          /\ pc = "user_feedback:input" => server = 1
          /\ pc \in Nodes \cup {"START", "END"} => server = 0)
    /\ [][ /\ (pc = "user_feedback" /\ pc' # "FAILED") =>
                (pc' = "user_feedback:input" /\ server' = 1)
           /\ (pc = "user_feedback:input" /\ pc' # "FAILED") =>
                (server' = 0 /\ pc' \in {"END", "user_notes"}) ]_vars

\* the reject loop was taken and the server is running for the second gate
ServerRunningAfterRejectLoop ==
    /\ pc = "user_feedback:input"
    /\ server = 1
    /\ prev = "code_refactor"
    /\ \E i \in 1..Len(messages) : messages[i].name = "user_notes"
    /\ \E i \in 1..Len(messages) :
           messages[i].name = "present_for_approval" /\ i < Len(messages)
    /\ steps >= 3

---------------------------------------------------------------------------
(* Failures *)

\* in this step the stage made a generator call and the call raised
GeneratorCallFailed == calls' # calls /\ genCall'.out = "raised"

\* in this step the stage's validation of a log entry against
\* RequirementsList raised
SchemaValidationFailed ==
    \/ /\ pc \in {"question_maker", "present_for_approval"}
       /\ ~ValidateFirst(Last(messages)).ok
    \/ pc = "amend_requirements" /\ LatestForAmend(messages).error # ""
    \/ pc = "implementation" /\ LatestForImplement(messages).error # ""

\* in this step a write of save_web_files or the start of the server raised
WriteOrServerFailed == err' = "OSError"

\* in this step code_refactor could not read out/main.js
RefactorReadFailed == pc = "code_refactor" /\ files.js = NoFile

\* in this step refactor_comment could not read one of the two files
CommentReadFailed ==
    pc = "refactor_comment" /\ (files.html = NoFile \/ files.js = NoFile)

\* the run ends in failure: nothing is appended or removed, and a failed
\* generator call was made once
RunEndsInFailure ==
    /\ pc' = "FAILED"
    /\ err' # ""
    /\ messages' = messages
    /\ calls' <= calls + 1

\* C19 as stated: whenever a generator call, a schema validation or a file
\* or server call fails inside a stage, the run ends in failure with the log
\* as it was and the call not made again, and nothing runs after a failure.
EveryFailureEndsRun ==
    [][ /\ pc # "FAILED"
        /\ (\/ GeneratorCallFailed
            \/ SchemaValidationFailed
            \/ WriteOrServerFailed
            \/ RefactorReadFailed
            \/ CommentReadFailed) => RunEndsInFailure ]_vars

\* C19, amended: the same for every such failure but one: a file that
\* refactor_comment cannot read does not end the run; unless its generator
\* call raises, refactor_comment completes with exactly one entry appended.
UncaughtFailureEndsRun ==
    [][ /\ pc # "FAILED"
        /\ (\/ GeneratorCallFailed
            \/ SchemaValidationFailed
            \/ WriteOrServerFailed
            \/ RefactorReadFailed) => RunEndsInFailure
        /\ (CommentReadFailed /\ ~GeneratorCallFailed) =>
                /\ pc' = "code_refactor"
                /\ err' = ""
                /\ Len(messages') = Len(messages) + 1
                /\ SubSeq(messages', 1, Len(messages)) = messages ]_vars

\* a generator call raised after earlier stages had appended their entries
GeneratorFailedLate ==
    /\ pc = "FAILED"
    /\ err = "GeneratorError"
    /\ genCall.out = "raised"
    /\ calls >= 2
    /\ prev # "none"
    /\ Len(messages) >= 3

---------------------------------------------------------------------------
(* The channel reducers on their own: the input of app.invoke and the      *)
(* deltas nodes return, merged into empty channels                         *)

\* what a node may return under "messages" and under "documents"
DeltaMessages == {<<>>, <<QnaMessage>>, <<ExtractedMessage, AmendedMessage>>}
DeltaDocuments == {<<>>, <<"chunk1">>, <<"chunk2", "chunk3">>}
Deltas == [messages : DeltaMessages, documents : DeltaDocuments]

\* the state main.py invokes the graph with
InvokeInput == [messages |-> <<Seed>>, documents |-> <<>>]

InitMerge ==
    /\ pc = "merge"
    /\ messages = <<>>
    /\ documents = <<>>
    /\ \E n \in 0..MaxDeltas : \E ds \in [1..n -> Deltas] :
           deltas = <<InvokeInput>> \o ds
    /\ files = [html |-> NoFile, js |-> NoFile]
    /\ server = 0
    /\ retrieved = <<>>
    /\ display = <<>>
    /\ route = "none"
    /\ prev = "none"
    /\ genCall = NoCall
    /\ calls = 0
    /\ latest = NoResult
    /\ err = ""
    /\ steps = 0

RECURSIVE ConcatDeltas(_)
\* several deltas as one: the entries of each channel laid end to end
ConcatDeltas(ds) ==
    IF ds = <<>> THEN [messages |-> <<>>, documents |-> <<>>]
    ELSE [messages |-> Head(ds).messages \o ConcatDeltas(Tail(ds)).messages,
          documents |-> Head(ds).documents \o ConcatDeltas(Tail(ds)).documents]

\* the graph merges one delta into the channels; steps counts the deltas
\* merged so far
Merge(delta, count, how) ==
    /\ messages' = Reduce(messages, delta.messages)
    /\ documents' = Reduce(documents, delta.documents)
    /\ steps' = steps + count
    /\ pc' = IF steps + count = Len(deltas) THEN "merged" ELSE "merge"
    /\ prev' = how
    /\ UNCHANGED <<files, server, retrieved, display, route, genCall, calls, latest, deltas, err>>

\* the next delta is merged on its own
MergeNext ==
    /\ pc = "merge"
    /\ Merge(deltas[steps + 1], 1, "MergeNext")

\* the deltas still to come are merged as a single delta
MergeRest ==
    /\ pc = "merge"
    /\ steps >= 1
    /\ Merge(ConcatDeltas(SubSeq(deltas, steps + 1, Len(deltas))),
             Len(deltas) - steps, "MergeRest")

NextMerge ==
    \/ MergeNext
    \/ MergeRest

SpecMerge == InitMerge /\ [][NextMerge]_vars

\* a channel of a delta, and of the state
Channel(d, ch) == IF ch = "messages" THEN d.messages ELSE d.documents
ChannelValue(ch) == IF ch = "messages" THEN messages ELSE documents

RECURSIVE TotalLen(_, _)
\* number of entries the deltas hold for a channel
TotalLen(ds, ch) ==
    IF ds = <<>> THEN 0 ELSE Len(Channel(Head(ds), ch)) + TotalLen(Tail(ds), ch)

RECURSIVE EntryAt(_, _, _)
\* the i-th entry of a channel when the deltas are read one after the other
EntryAt(ds, ch, i) ==
    IF i <= Len(Channel(Head(ds), ch)) THEN Channel(Head(ds), ch)[i]
    ELSE EntryAt(Tail(ds), ch, i - Len(Channel(Head(ds), ch)))

\* C20: once all deltas are merged, whether one by one or the later ones as
\* a single concatenated delta, each channel holds the entries of the
\* deltas in the order of the deltas and, within a delta, in its order.
MergeIsConcatenation ==
    pc = "merged" =>
        \A ch \in {"messages", "documents"} :
            /\ Len(ChannelValue(ch)) = TotalLen(deltas, ch)
            /\ \A i \in 1..Len(ChannelValue(ch)) :
                   ChannelValue(ch)[i] = EntryAt(deltas, ch, i)

\* two deltas that both hold log entries were merged as a single delta
TwoDeltasMergedAtOnce ==
    /\ pc = "merged"
    /\ prev = "MergeRest"
    /\ Len(deltas) = 3
    /\ steps = 3
    /\ deltas[2].messages # <<>>
    /\ deltas[3].messages # <<>>
    /\ deltas[2] # deltas[3]
    /\ deltas[2].documents # <<>>

---------------------------------------------------------------------------
(* The retriever *)

\* C21: retrieve calls the retriever only when the last entry of the log is
\* a human entry, once, with that entry's text, and what the retriever
\* returns is added at the end of the references; when the last entry is
\* not a human entry it calls nothing and adds nothing; in either case the
\* log is left as it is.
RetrieveQueriesLastHumanEntry ==
    [][ pc = "retrieve" =>
            /\ messages' = messages
            /\ IF messages[Len(messages)].type = "human"
               THEN /\ Len(retrieved') = Len(retrieved) + 1
                    /\ SubSeq(retrieved', 1, Len(retrieved)) = retrieved
                    /\ retrieved'[Len(retrieved')].query = messages[Len(messages)].content
                    /\ pc' # "FAILED" =>
                           documents' = documents \o retrieved'[Len(retrieved')].docs
                    /\ pc' = "FAILED" => documents' = documents
               ELSE /\ retrieved' = retrieved
                    /\ documents' = documents
                    /\ pc' = "generate_requirements" ]_vars

\* retrieve ran on a log that ends with a person's notes, and two fragments
\* came back
RetrievedForNotesEntry ==
    /\ prev = "retrieve"
    /\ Len(messages) > 1
    /\ Len(retrieved) = 1
    /\ TextOf(retrieved[1].query) = Chars("fix")
    /\ retrieved[1].docs = <<"chunk1", "chunk2">>
    /\ Len(documents) >= 2

---------------------------------------------------------------------------
(* The clarifying questions *)

\* the question/answer pairs held by an entry question_maker wrote
LoadQuestionsAndAnswers(m) ==
    LET items == Get(m.content.data[1], "questions_and_answers")[2]
    IN  [i \in 1..Len(items) |->
            [question |-> Get(items[i], "question")[2],
             answer |-> Get(items[i], "answer")[2]]]

\* an entry of the form question_maker writes
IsQnaEntry(m) ==
    /\ m.type = "ai"
    /\ m.content.kind = "list"
    /\ Len(m.content.data) = 1
    /\ IsDict(m.content.data[1])
    /\ HasKey(m.content.data[1], "questions_and_answers")

\* C22: an execution of question_maker, entered from generate_requirements
\* or from a rejected approval, appends exactly one generated entry; the
\* entry holds at most 3 question/answer pairs, the questions are the first
\* ones the generator returned, in the generator's order, each with the
\* answer a person gave.  (A step in which the generator itself raised is
\* left aside.)
QuestionMakerAsksAtMostThree ==
    [][ (/\ pc = "question_maker"
         /\ prev \in {"generate_requirements", "present_for_approval"}
         /\ ~CollaboratorRaised) =>
            /\ pc' # "FAILED"
            /\ Len(messages') = Len(messages) + 1
            /\ SubSeq(messages', 1, Len(messages)) = messages
            /\ IsQnaEntry(messages'[Len(messages')])
            /\ LET pairs == LoadQuestionsAndAnswers(messages'[Len(messages')])
               IN  /\ Len(pairs) <= 3
                   /\ Len(pairs) <= Len(genCall'.questions)
                   /\ \A i \in 1..Len(pairs) :
                        /\ pairs[i].question = genCall'.questions[i]
                        /\ pairs[i].answer \in Answers ]_vars

---------------------------------------------------------------------------
(* The approval summary on its own, over lists of requirements *)

\* categories and descriptions a generated requirement may carry
Categories == {"Functional", "Non-Functional", "non-functional", "Data", ""}
Descriptions == {"A", "B", ""}

SummaryRequirements ==
    [requirement_id : {"REQ-001"}, description : Descriptions, category : Categories]

SummaryInputs == UNION {[1..n -> SummaryRequirements] : n \in 0..MaxReqs}

InitSummary ==
    /\ pc = "format"
    /\ \E reqs \in SummaryInputs :
           messages = <<Seed, AIMessage(ListContent(<<DumpRequirementsList(reqs)>>),
                                        "requirements_amender")>>
    /\ documents = <<>>
    /\ files = [html |-> NoFile, js |-> NoFile]
    /\ server = 0
    /\ retrieved = <<>>
    /\ display = <<>>
    /\ route = "none"
    /\ prev = "none"
    /\ genCall = NoCall
    /\ calls = 0
    /\ latest = NoResult
    /\ deltas = <<>>
    /\ err = ""
    /\ steps = 0

\* present_for_approval up to the prompt: the last entry is validated and
\* format_json_as_bullets(requirements.model_dump_json()) is rendered
Format ==
    /\ pc = "format"
    /\ LET requirements == ValidateFirst(Last(messages))
       IN  /\ requirements.ok
           /\ display' = format_json_as_bullets(DumpRequirementsList(requirements.reqs))
    /\ pc' = "formatted"
    /\ UNCHANGED <<messages, documents, files, server, retrieved, route, prev, genCall,
                   calls, latest, deltas, err, steps>>

NextSummary == Format

SpecSummary == InitSummary /\ [][NextSummary]_vars

\* the requirements the summary was rendered from
Summarised == LoadRequirementsList(Last(messages).content.data[1])

\* the category a requirement is listed under: its category with every
\* word capitalised, "Uncategorized" when it has none
ListedUnder(r) ==
    Title(IF Chars(r.category) = <<>> THEN Chars("Uncategorized") ELSE Chars(r.category))

\* positions of the headers of a summary
HeaderIndices(lines) == {i \in 1..Len(lines) : lines[i].kind = "header"}

\* the header line a line of the summary stands under
HeaderAbove(lines, i) == Max({h \in HeaderIndices(lines) : h <= i})

\* positions of the bullets that list description d under category c
BulletsFor(lines, c, d) ==
    {i \in 1..Len(lines) :
        /\ lines[i].kind = "bullet"
        /\ lines[i].desc = d
        /\ \E h \in HeaderIndices(lines) : h < i
        /\ lines[HeaderAbove(lines, i)].cat = c}

\* first requirement of category c that has description d
FirstOccurrence(reqs, c, d) ==
    Min({i \in 1..Len(reqs) : ListedUnder(reqs[i]) = c /\ reqs[i].description = d})

\* 0 for Functional, 1 for Non-Functional, 2 for every other category
PreferredRank(c) ==
    IF c = Chars("Functional") THEN 0 ELSE IF c = Chars("Non-Functional") THEN 1 ELSE 2

\* C23: in the approval summary the category headers stand with Functional
\* first, Non-Functional second and every other category after them in
\* lexicographic order, no category twice; under a category every distinct
\* (non-empty) description of its requirements is listed exactly once, in
\* the order of first occurrence, and nothing else is listed; for
\* [Functional:A, Non-Functional:B, Functional:A] the summary is Functional
\* with A, then Non-Functional with B.
SummaryGroupsAndOrders ==
    pc = "formatted" =>
        LET lines == display
            reqs == Summarised
            H == HeaderIndices(lines)
        IN  /\ \A h1 \in H : \A h2 \in H : h1 < h2 =>
                  \/ PreferredRank(lines[h1].cat) < PreferredRank(lines[h2].cat)
                  \/ /\ PreferredRank(lines[h1].cat) = 2
                     /\ PreferredRank(lines[h2].cat) = 2
                     /\ StrLess(lines[h1].cat, lines[h2].cat)
            /\ \A i \in 1..Len(reqs) : reqs[i].description # "" =>
                  Cardinality(BulletsFor(lines, ListedUnder(reqs[i]),
                                         reqs[i].description)) = 1
            /\ \A i \in 1..Len(lines) : lines[i].kind = "bullet" =>
                  /\ \E h \in H : h < i
                  /\ \E j \in 1..Len(reqs) :
                        /\ ListedUnder(reqs[j]) = lines[HeaderAbove(lines, i)].cat
                        /\ reqs[j].description = lines[i].desc
            /\ \A i \in 1..Len(lines) : \A k \in 1..Len(lines) :
                  (/\ i < k
                   /\ lines[i].kind = "bullet"
                   /\ lines[k].kind = "bullet"
                   /\ \E h \in H : h < i
                   /\ HeaderAbove(lines, i) = HeaderAbove(lines, k)) =>
                      FirstOccurrence(reqs, lines[HeaderAbove(lines, i)].cat, lines[i].desc)
                        < FirstOccurrence(reqs, lines[HeaderAbove(lines, k)].cat,
                                          lines[k].desc)
            /\ \A i \in 1..Len(lines) : lines[i].kind \in {"header", "bullet", "blank"}
            /\ (/\ Len(reqs) = 3
                /\ \A i \in {1, 3} : reqs[i].category = "Functional"
                                        /\ reqs[i].description = "A"
                /\ reqs[2].category = "Non-Functional"
                /\ reqs[2].description = "B") =>
                    lines = <<HeaderLine(Chars("Functional")), BulletLine("A"), BlankLine,
                              HeaderLine(Chars("Non-Functional")), BulletLine("B")>>

\* the summary of [Functional:A, Non-Functional:B, Functional:A] was rendered
SummaryOfExampleRendered ==
    /\ pc = "formatted"
    /\ Len(Summarised) = 3
    /\ Summarised[1].category = "Functional" /\ Summarised[1].description = "A"
    /\ Summarised[2].category = "Non-Functional" /\ Summarised[2].description = "B"
    /\ Summarised[3] = Summarised[1]
    /\ Len(display) = 5
    /\ display[2] = BulletLine("A")

---------------------------------------------------------------------------
(* The first two stages *)

\* C24: from a log that holds the seed query alone, retrieve leaves the log
\* as it is and hands over to generate_requirements, and generate_requirements
\* leaves a log of exactly two entries: the seed query, then one generated
\* entry tagged as requirements.  (A step in which the retriever or the
\* generator itself raised is left aside.)
SeedThenRequirementsEntry ==
    [][ /\ (pc = "retrieve" /\ messages = <<Seed>> /\ ~CollaboratorRaised) =>
                /\ messages' = <<Seed>>
                /\ pc' = "generate_requirements"
        /\ (/\ pc = "generate_requirements"
            /\ prev = "retrieve"
            /\ messages = <<Seed>>
            /\ ~CollaboratorRaised) =>
                /\ pc' # "FAILED"
                /\ Len(messages') = 2
                /\ messages'[1] = Seed
                /\ messages'[2].type = "ai"
                /\ messages'[2].name = "requirements_agent"
                /\ messages'[2].content.head = "EXTRACTED REQUIREMENTS:\n\n" ]_vars

\* retrieve and generate_requirements ran on the seed query alone
RequirementsEntryAfterSeed ==
    /\ prev = "generate_requirements"
    /\ steps = 2
    /\ Len(retrieved) = 1
    /\ retrieved[1].query = Seed.content
    /\ Len(messages) = 2
    /\ messages[2].name = "requirements_agent"
    /\ genCall.context = documents

---------------------------------------------------------------------------
(* The notes of code_refactor *)

\* the latest entry of the log that carries the name
LatestNamed(msgs, name) ==
    msgs[Max({i \in 1..Len(msgs) : msgs[i].name = name})]

\* C25: when code_refactor calls the generator, the notes it passes are the
\* content of the latest refactor commentary entry if it was entered from
\* refactor_comment, and the content of the latest user notes entry if it
\* was entered from user_notes.
RefactorNotesAreLatestEntry ==
    [][ (/\ pc = "code_refactor"
         /\ prev \in {"refactor_comment", "user_notes"}
         /\ calls' = calls + 1) =>
            /\ genCall'.stage = "code_refactor"
            /\ prev = "refactor_comment" =>
                    /\ \E i \in 1..Len(messages) : messages[i].name = "refactor_commentary"
                    /\ genCall'.notes =
                            <<LatestNamed(messages, "refactor_commentary").content>>
            /\ prev = "user_notes" =>
                    /\ \E i \in 1..Len(messages) : messages[i].name = "user_notes"
                    /\ LatestNamed(messages, "user_notes").type = "human"
                    /\ genCall'.notes = <<LatestNamed(messages, "user_notes").content>> ]_vars

\* code_refactor ran after user_notes, on the notes "ok", in a log that
\* holds older notes as well
RefactoredOnUserNotes ==
    /\ prev = "code_refactor"
    /\ genCall.stage = "code_refactor"
    /\ Len(messages) >= 4
    /\ messages[Len(messages) - 1].name = "user_notes"
    /\ TextOf(messages[Len(messages) - 1].content) = Chars("ok")
    /\ genCall.notes = <<messages[Len(messages) - 1].content>>
    /\ \E i \in 2..(Len(messages) - 2) : messages[i].name = "user_notes"

---------------------------------------------------------------------------
(* The refactor commentary *)

\* the file yields no content: it cannot be read, or it is empty
YieldsNothing(src) == src \in {NoFile, ""}

\* C26: every execution of refactor_comment appends exactly one generated
\* entry named refactor_commentary.  When neither out/index.html nor
\* out/main.js yields content the entry is the notice and the generator is
\* not called; otherwise the generator is called once, with the text of
\* each file that could be read and a placeholder for one that could not.
\* (A step in which the generator itself raised is left aside.)
CommentaryAlwaysAppended ==
    [][ (pc = "refactor_comment" /\ ~CollaboratorRaised) =>
            /\ pc' = "code_refactor"
            /\ Len(messages') = Len(messages) + 1
            /\ SubSeq(messages', 1, Len(messages)) = messages
            /\ messages'[Len(messages')].type = "ai"
            /\ messages'[Len(messages')].name = "refactor_commentary"
            /\ files' = files
            /\ IF YieldsNothing(files.html) /\ YieldsNothing(files.js)
               THEN /\ calls' = calls
                    /\ genCall' = genCall
                    /\ messages'[Len(messages')].content.head = "No inputs to review"
               ELSE /\ calls' = calls + 1
                    /\ genCall'.stage = "refactor_comment"
                    /\ genCall'.html = (IF files.html = NoFile THEN "<missing index.html>"
                                        ELSE files.html)
                    /\ genCall'.js = (IF files.js = NoFile THEN "<missing main.js>"
                                      ELSE files.js) ]_vars

\* refactor_comment ran with out/index.html missing and out/main.js present,
\* and the generator returned two comments
CommentedWithPlaceholder ==
    /\ prev = "refactor_comment"
    /\ files.html = NoFile
    /\ files.js # NoFile
    /\ genCall.stage = "refactor_comment"
    /\ genCall.html = "<missing index.html>"
    /\ genCall.js = files.js
    /\ Last(messages).name = "refactor_commentary"
    /\ Last(messages).content.kind = "list"
    /\ Len(Last(messages).content.data) = 2

---------------------------------------------------------------------------
(* The references *)

\* C27: only retrieve adds to the references: a step of any other stage,
\* the gates present_for_approval, user_feedback and user_notes among them,
\* leaves the references exactly as they were.
OnlyRetrieveAddsReferences ==
    [][ pc # "retrieve" => documents' = documents ]_vars

---------------------------------------------------------------------------
(* The length of the log *)

\* this step completes an execution of a stage
StageCompleted == steps' = steps + 1 /\ pc' # "FAILED"

\* the run began with the seed query alone: retrieve asked the retriever
\* for the seed query, which stands nowhere but at the head of a log
BeganWithSeedAlone == Len(retrieved) = 1 /\ retrieved[1].query = Seed.content

\* completed executions of stages other than retrieve in such a run: the
\* executions so far, less the one of retrieve and less one that raised
CompletedAfterRetrieve ==
    IF retrieved[1].docs = RetrieverRaised THEN 0
    ELSE steps - 1 - (IF pc = "FAILED" THEN 1 ELSE 0)

\* C28: a step that completes a stage other than retrieve appends exactly
\* one entry to the log, and every other step (retrieve, a stage that
\* raises, the start of the preview server) leaves the log as it is; so in
\* a run that begins with the seed query alone the log holds 1 entry plus
\* one for every completed execution of a stage other than retrieve.
LogLengthCountsStages ==
    /\ [](/\ pc = "START" => Len(messages) = 1
          /\ BeganWithSeedAlone => Len(messages) = 1 + CompletedAfterRetrieve)
    /\ [][ IF StageCompleted /\ pc # "retrieve"
           THEN /\ Len(messages') = Len(messages) + 1
                /\ SubSeq(messages', 1, Len(messages)) = messages
           ELSE messages' = messages ]_vars

\* a run from the seed query alone: retrieve and generate_requirements
\* completed, a third stage raised, and the log holds two entries
TwoEntriesAfterThreeExecutions ==
    /\ BeganWithSeedAlone
    /\ steps = 3
    /\ pc = "FAILED"
    /\ CompletedAfterRetrieve = 1
    /\ Len(messages) = 2

---------------------------------------------------------------------------
(* The entry the conditional edges classify *)

\* C29: at both conditional edges the class the router returns is the
\* class of the last entry of the log, which is the reply the gate has just
\* appended; the seed query, earlier replies and user notes further up in
\* the log play no part, and the edge taken is the one of that class.
ClassifiedEntryIsTheReply ==
    [][ (pc \in {"present_for_approval", "user_feedback:input"} /\ pc' # "FAILED") =>
            /\ Len(messages') = Len(messages) + 1
            /\ SubSeq(messages', 1, Len(messages)) = messages
            /\ messages'[Len(messages')].type = "human"
            /\ messages'[Len(messages')].name = "present_for_approval"
            /\ route' = classify(TextOf(messages'[Len(messages')].content))
            /\ pc = "present_for_approval" =>
                    pc' = (IF route' = "approve" THEN "implementation"
                           ELSE IF route' = "reject" THEN "question_maker" ELSE "END")
            /\ pc = "user_feedback:input" =>
                    pc' = (IF route' = "approve" THEN "END"
                           ELSE IF route' = "reject" THEN "user_notes" ELSE "END") ]_vars

\* user_feedback was answered with a reject while the log holds, further
\* up, user notes that would be classified approve and the seed query
OlderHumanEntriesIgnored ==
    /\ prev = "user_feedback"
    /\ route = "reject"
    /\ pc = "user_notes"
    /\ classify(TextOf(messages[1].content)) = "unknown"
    /\ \E i \in 2..(Len(messages) - 1) :
        /\ messages[i].type = "human"
        /\ messages[i].name = "user_notes"
        /\ classify(TextOf(messages[i].content)) = "approve"

---------------------------------------------------------------------------
(* The graph of main.py on its own: every stage returns its entry or       *)
(* raises, the gates append the person's reply, and the edges of main.py   *)
(* choose the next stage.  What the entries of the other stages hold is    *)
(* left out: the router reads human entries only.                          *)

GateNodes == {"present_for_approval", "user_feedback"}

\* replies classified reject that the log holds
Rejects(msgs) ==
    Cardinality({i \in 1..Len(msgs) :
                    /\ msgs[i].type = "human"
                    /\ classify(TextOf(msgs[i].content)) = "reject"})

\* the entry a stage other than a gate returns, its content left out
StageEntry(node) == AIMessage(StrContent("", <<>>, <<>>), node)

InitGraph ==
    /\ pc = "START"
    /\ messages = <<Seed>>
    /\ documents = <<>>
    /\ files = [html |-> NoFile, js |-> NoFile]
    /\ server = 0
    /\ retrieved = <<>>
    /\ display = <<>>
    /\ route = "none"
    /\ prev = "none"
    /\ genCall = NoCall
    /\ calls = 0
    /\ latest = NoResult
    /\ deltas = <<>>
    /\ err = ""
    /\ steps = 0

\* a stage with one outgoing edge returns: its delta is merged and the
\* graph follows the edge
StageReturns ==
    \E node \in Nodes \ GateNodes :
        /\ pc = node
        /\ Complete(node, IF node = "retrieve" THEN <<>> ELSE <<StageEntry(node)>>,
                    <<>>, Edges(node))
        /\ UNCHANGED <<files, server, retrieved, display, route, genCall, calls>>

\* a stage raises: the run is over
StageRaises ==
    \E node \in Nodes :
        /\ pc = node
        /\ Fail(node, "Exception")

\* a gate returns the person's reply and the router chooses the edge; a
\* reply classified reject is given at most MaxRejects times
GateReturns ==
    \E node \in GateNodes : \E approval \in GateReplies :
        LET new == <<HumanMessage(approval, "present_for_approval")>>
            decision == route_on_user_decision(EdgeState(messages, new))
        IN  /\ pc = node
            /\ decision = "reject" => Rejects(messages) < MaxRejects
            /\ route' = decision
            /\ Complete(node, new, documents,
                        IF node = "present_for_approval" THEN ApprovalEdges(decision)
                        ELSE FeedbackEdges(decision))
            /\ UNCHANGED <<files, server, retrieved, display, genCall, calls>>

NextGraph ==
    \/ start
    \/ StageReturns
    \/ StageRaises
    \/ GateReturns

\* The graph runs the next stage whenever there is one, and every stage
\* returns or raises: no walk stops short of END while a stage is due.
SpecGraph == InitGraph /\ [][NextGraph]_vars /\ WF_vars(NextGraph)

\* the number of stages still ahead on the longest way to END that takes no
\* reject edge
Rank(node) ==
    CASE node = "START" -> 10
      [] node = "retrieve" -> 9
      [] node = "generate_requirements" -> 8
      [] node = "question_maker" -> 7
      [] node = "amend_requirements" -> 6
      [] node = "present_for_approval" -> 5
      [] node = "implementation" -> 4
      [] node = "refactor_comment" -> 3
      [] node = "user_notes" -> 3
      [] node = "code_refactor" -> 2
      [] node = "user_feedback" -> 1
      [] node = "END" -> 0
      [] node = "FAILED" -> 0

\* this step is a gate's, and the reply it appends is classified reject
RejectedAtGate ==
    /\ pc \in GateNodes
    /\ Len(messages') = Len(messages) + 1
    /\ messages'[Len(messages')].type = "human"
    /\ classify(TextOf(messages'[Len(messages')].content)) = "reject"

\* C30: every step of the graph other than a gate's step on a reply
\* classified reject brings the run nearer to its end, so every cycle of
\* the graph passes through such a reply; and a run in which every stage
\* returns or raises and only finitely many replies are classified reject
\* reaches END or ends in failure.
RunEndsUnlessRejectedForever ==
    /\ [][ (pc' # pc \/ steps' # steps) =>
                (Rank(pc') < Rank(pc) \/ RejectedAtGate) ]_vars
    /\ <>(pc \in {"END", "FAILED"})

\* a walk that took the reject edge of each gate ended at END
EndedAfterBothRejectLoops ==
    /\ pc = "END"
    /\ route = "approve"
    /\ Rejects(messages) = 2
    /\ \E i \in 1..Len(messages) : messages[i].name = "user_notes"
    /\ Cardinality({i \in 1..Len(messages) : messages[i].name = "question_maker"}) = 2

---------------------------------------------------------------------------
(* The router on its own, over the keywords given alone *)

\* the alternatives of YES_PAT and of NO_PAT, as a person types them
ApprovePhrases ==
    {"yes", "y", "approve", "approved", "ok", "okay", "agree", "accepted",
     "accept", "looks good", "ship it"}
RejectPhrases ==
    {"no", "n", "reject", "rejected", "disagree", "not ok", "needs changes",
     "question", "questions", "deny", "denied"}

\* blanks typed before or after the phrase
Padding == {<<>>, <<" ">>}

InitPhrases ==
    /\ pc = "route"
    /\ \E phrase \in ApprovePhrases \cup RejectPhrases :
       \E before \in Padding : \E after \in Padding :
           messages = <<Seed, HumanMessage(before \o <<phrase>> \o after,
                                           "present_for_approval")>>
    /\ documents = <<>>
    /\ files = [html |-> NoFile, js |-> NoFile]
    /\ server = 0
    /\ retrieved = <<>>
    /\ display = <<>>
    /\ route = "none"
    /\ prev = "none"
    /\ genCall = NoCall
    /\ calls = 0
    /\ latest = NoResult
    /\ deltas = <<>>
    /\ err = ""
    /\ steps = 0

SpecPhrases == InitPhrases /\ [][NextRouter]_vars

\* the phrase of the reply, the blanks around it left out
PhraseGiven ==
    LET text == Last(messages).content.text
    IN  text[CHOOSE i \in 1..Len(text) : text[i] # " "]

\* C31: a reply that consists of one phrase of the reject set alone is
\* classified reject, and a reply that consists of one phrase of the
\* approve set alone is classified approve.
EveryPhraseAloneClassified ==
    pc = "routed" =>
        /\ PhraseGiven \in RejectPhrases => route = "reject"
        /\ PhraseGiven \in ApprovePhrases => route = "approve"

---------------------------------------------------------------------------
(* The original requirements entry *)

\* positions of the entries generate_requirements wrote
RequirementsEntries(msgs) == {i \in 1..Len(msgs) : msgs[i].name = "requirements_agent"}

\* C32: retrieve is entered from START only and generate_requirements from
\* retrieve only, and START is never come back to, so each of the two runs
\* once, before every other stage; an entry named requirements_agent is
\* added by a completed generate_requirements and by nothing else, so a run
\* that begins with the seed query alone never holds more than one; and
\* every amend_requirements that calls the generator passes the
\* requirements of that entry, whatever stands after it in the log.
OriginalRequirementsOnce ==
    /\ [](/\ pc = "START" => RequirementsEntries(messages) = {}
          /\ BeganWithSeedAlone => Cardinality(RequirementsEntries(messages)) <= 1
          /\ pc = "retrieve" => prev = "none"
          /\ pc = "generate_requirements" => prev \in {"none", "retrieve"})
    /\ [][ /\ pc' = "START" => pc = "START"
           /\ pc' = "retrieve" => pc \in {"START", "retrieve"}
           /\ pc' = "generate_requirements" => pc \in {"retrieve", "generate_requirements"}
           /\ RequirementsEntries(messages') =
                RequirementsEntries(messages) \cup
                    (IF pc = "generate_requirements" /\ StageCompleted
                     THEN {Len(messages')} ELSE {})
           /\ (pc = "amend_requirements" /\ calls' = calls + 1) =>
                /\ RequirementsEntries(messages) # {}
                /\ genCall'.stage = "amend_requirements"
                /\ genCall'.reqs =
                       LoadRequirementsList(
                           messages[Max(RequirementsEntries(messages))].content.data[1])
         ]_vars

\* amend_requirements called the generator with the requirements of the
\* one original entry although an amended list stands after it in the log
AmendedFromOriginalAgain ==
    /\ prev = "amend_requirements"
    /\ genCall.stage = "amend_requirements"
    /\ genCall.out = "returned"
    /\ Cardinality(RequirementsEntries(messages)) = 1
    /\ \E i \in RequirementsEntries(messages) : \E j \in 1..(Len(messages) - 1) :
        /\ i < j
        /\ messages[j].name = "requirements_amender"
        /\ genCall.reqs = LoadRequirementsList(messages[i].content.data[1])
        /\ genCall.reqs # LoadRequirementsList(messages[j].content.data[1])

---------------------------------------------------------------------------
(* The preview server at the end of the run *)

\* C33: once the run has ended, at END or by a failure, no preview server
\* process is left running.
NoServerLeftWhenRunEnded ==
    pc \in {"END", "FAILED"} => server = 0

====
